---- MODULE Spec2Model ----
(***************************************************************************)
(* RobotOps backend: the relational state (groups, group_memberships,      *)
(* robots, robot_permissions, robot_settings) and the request handlers of  *)
(* group.controller.ts, robot.controller.ts and robot.service.ts.          *)
(* Tables are sets of rows; primary keys, UNIQUE constraints and foreign   *)
(* keys are enforced by the INSERT/UPSERT operators, as PostgreSQL does.   *)
(***************************************************************************)
EXTENDS Integers, FiniteSets, Sequences, TLC

\* ---------------------------------------------------------------- bounds
MaxUsers == 3
MaxGroups == 1
MaxRobots == 1
MaxOps == 5
\* requests explored by the group-administration specification
MaxAdminOps == 3
\* requests explored by the permission-handler specification
MaxPermOps == 4
\* concurrent requests explored by the statement-by-statement specifications:
\* creations of robots; writers of memberships, permissions and settings
MaxRaceOps == 3
MaxWriteRaceOps == 2
\* requests explored by the robot-row and the settings specifications
MaxRobotOps == 3
MaxSettingsOps == 3
\* requests explored by the deletion specification
MaxCascadeOps == 3
\* requests explored by the delegation specification
MaxDelegationOps == 4
\* requests explored by the user-profile specification
MaxUserOps == 3
\* concurrent grant and revocation requests explored
MaxAdminRaceOps == 3
\* logins, logouts and API calls explored by the client specification, and the
\* distinct access and refresh tokens the server hands out
MaxClientOps == 3
MaxTokens == 2
\* users who send the requests of the focused specifications, and are their targets
MaxSharedRobots == 2
MaxActors == 2

\* SQL NULL / JS null: a value no id ever takes (ids are SERIAL, from 1).
NULL == -1

Users == 1..MaxUsers
Actors == 1..MaxActors
\* user_id values a request body may carry: any integer passes isInt(), 0 included
UserIds == 0..MaxUsers
\* user_id as the JSON body of grantPermission carries it: a number, or the
\* decimal string of one (isInt() accepts both and nothing converts it)
BodyUserIds == [type : {"number", "string"}, value : Users]
GroupIds == 1..MaxGroups
\* owner_group_id values of a createRobot body: 0 (falsy, as when absent) or an id
GroupInputs == 0..MaxGroups
SharedSerials == 1..MaxSharedRobots
Serials == 1..MaxRobots
GroupRoles == {"ADMIN", "MEMBER"}
PermissionTypes == {"USAGE", "ADMIN"}
\* settings objects, as their sets of keys
Blobs == {{}, {"theme"}}
UserRoles == {"USER", "ADMIN"}
\* e-mail addresses, numbered; 0 in a body: no e-mail given
Emails == 1..MaxUsers
\* users.name: SQL NULL, written "null", or a name
Names == {"null", "Ann"}
\* req.body.name: absent, the empty string or a name
BodyNames == {"undefined", "", "Ann"}
\* req.body.role: absent, or a value of user_role
BodyRoles == {""} \cup UserRoles

AccessTokens == 1..MaxTokens
RefreshTokens == 1..MaxTokens

\* req.body.settings: an object, or null or absent
BodySettings == [type : {"object"}, value : Blobs] \cup {[type |-> "null", value |-> {}]}
NoSettings == [type |-> "null", value |-> {}]

VARIABLES
    groups,             \* rows of table groups: [id, owner_id]
    nextGroupId,        \* groups.id SERIAL sequence
    group_memberships,  \* rows [group_id, user_id, role]
    robots,             \* rows [serial_number, owner_user_id, owner_group_id, assigned_user_id]
    robot_permissions,  \* rows [robot_serial_number, user_id, permission_type, granted_by_id]
    robot_settings,     \* rows [robot_serial_number, user_id, settings]
    creating,           \* createGroup requests between their two INSERTs: [group_id, user_id]
    resp,               \* the request last taken up and the status it was answered
                        \* with (0: not answered yet): [op, status, user, group, serial,
                        \* target], and the settings of the JSON body sent back
    ops,                \* number of requests started
    pending,            \* requests taken statement by statement, between their checks
                        \* and their INSERT/UPDATE/DELETE
    users,              \* rows of table users: [id, email, name, role, is_staff]
    tokens,             \* the API client's module-level tokens: NoTokens or [access, refresh]
    storage,            \* the tokens kept in localStorage, likewise
    refreshPromise,     \* the promise of the refresh: NoRefresh or [refresh]
    refreshRequests,    \* how many POST /auth/refresh are in flight
    calls,              \* API calls of the client in flight
    session             \* "in" from a login or register that succeeded until logout

vars == <<groups, nextGroupId, group_memberships, robots, robot_permissions,
          robot_settings, creating, resp, ops, pending, users, tokens, storage,
          refreshPromise, refreshRequests, calls, session>>

\* the state of the browser client
frontend == <<tokens, storage, refreshPromise, refreshRequests, calls, session>>

tables == <<groups, nextGroupId, group_memberships, robots, robot_permissions,
            robot_settings>>

\* JS truthiness of a nullable integer: `if (robot.owner_group_id)`
Truthy(x) == x # NULL /\ x # 0

Response(op, status, user, group, serial, target) ==
    [op |-> op, status |-> status, user |-> user, group |-> group,
     serial |-> serial, target |-> target, body |-> {}]

\* ------------------------------------------------------------- queries
\* SELECT ... FROM groups WHERE id = $1
GroupRows(groupId) == {g \in groups : g.id = groupId}

\* SELECT ... FROM group_memberships WHERE group_id = $1 AND user_id = $2
MembershipRows(groupId, userId) ==
    {m \in group_memberships : m.group_id = groupId /\ m.user_id = userId}

\* SELECT ... FROM robots WHERE serial_number = $1
RobotRows(serial) == {r \in robots : r.serial_number = serial}

\* SELECT ... FROM robot_permissions WHERE robot_serial_number = $1 AND user_id = $2
PermissionRows(serial, userId) ==
    {p \in robot_permissions : p.robot_serial_number = serial /\ p.user_id = userId}

\* SELECT ... FROM robot_settings WHERE robot_serial_number = $1 AND user_id = $2
SettingRows(serial, userId) ==
    {x \in robot_settings : x.robot_serial_number = serial /\ x.user_id = userId}

\* result.rows[0]
Row0(rows) == CHOOSE x \in rows : TRUE

\* ------------------------------------------------------ robot.service.ts
\* The serial numbers of the rows getAccessibleRobots returns.
getAccessibleRobots(userId) ==
    LET groupIds == {m.group_id : m \in {x \in group_memberships : x.user_id = userId}}
        permissionRobotIds ==
            {p.robot_serial_number : p \in {x \in robot_permissions : x.user_id = userId}}
    IN  {r.serial_number : r \in
            {x \in robots :
                \/ (groupIds # {} /\ x.owner_group_id \in groupIds)
                \/ (permissionRobotIds # {} /\ x.serial_number \in permissionRobotIds)
                \/ x.owner_user_id = userId
                \/ x.assigned_user_id = userId}}

\* getUserRobotPermission taking a group's authority from the membership rows
\* alone, without the rule for the owner of the owning group
getUserRobotPermission_MembershipOnly(userId, robotSerialNumber) ==
    IF RobotRows(robotSerialNumber) = {} THEN "NONE"
    ELSE LET robot == Row0(RobotRows(robotSerialNumber))
             membershipResult == MembershipRows(robot.owner_group_id, userId)
             permissionResult == PermissionRows(robotSerialNumber, userId)
         IN  IF robot.owner_user_id = userId THEN "ADMIN"
             ELSE IF Truthy(robot.owner_group_id)
                     /\ membershipResult # {} /\ Row0(membershipResult).role = "ADMIN"
                  THEN "ADMIN"
             ELSE IF robot.assigned_user_id = userId THEN "USAGE"
             ELSE IF permissionResult # {} THEN Row0(permissionResult).permission_type
             ELSE "NONE"

\* getUserRobotPermission returning the explicit row's level before it looks at
\* the robot's owner
getUserRobotPermission_ExplicitFirst(userId, robotSerialNumber) ==
    IF RobotRows(robotSerialNumber) = {} THEN "NONE"
    ELSE LET robot == Row0(RobotRows(robotSerialNumber))
             permissionResult == PermissionRows(robotSerialNumber, userId)
         IN  IF permissionResult # {} THEN Row0(permissionResult).permission_type
             ELSE IF robot.owner_user_id = userId THEN "ADMIN"
             ELSE IF robot.assigned_user_id = userId THEN "USAGE"
             ELSE "NONE"

\* null is written "NONE"
getUserRobotPermission(userId, robotSerialNumber) ==
    IF RobotRows(robotSerialNumber) = {} THEN "NONE"
    ELSE LET robot == Row0(RobotRows(robotSerialNumber))
             groupResult == GroupRows(robot.owner_group_id)
             membershipResult == MembershipRows(robot.owner_group_id, userId)
             permissionResult == PermissionRows(robotSerialNumber, userId)
         IN  IF robot.owner_user_id = userId THEN "ADMIN"
             ELSE IF Truthy(robot.owner_group_id)
                     /\ groupResult # {} /\ Row0(groupResult).owner_id = userId
                  THEN "ADMIN"
             ELSE IF Truthy(robot.owner_group_id)
                     /\ membershipResult # {} /\ Row0(membershipResult).role = "ADMIN"
                  THEN "ADMIN"
             ELSE IF robot.assigned_user_id = userId THEN "USAGE"
             ELSE IF permissionResult # {} THEN Row0(permissionResult).permission_type
             ELSE "NONE"

\* hasAdminPermission asking getUserRobotPermission, which answers USAGE for the
\* assigned user before it reads the explicit row
hasAdminPermission_ByResolver(userId, robot) ==
    getUserRobotPermission(userId, robot.serialNumber) = "ADMIN"

\* robot: [serialNumber, ownerUserId, ownerGroupId], as the caller read it
hasAdminPermission(userId, robot) ==
    LET groupResult == GroupRows(robot.ownerGroupId)
        membershipResult == MembershipRows(robot.ownerGroupId, userId)
        permissionResult == PermissionRows(robot.serialNumber, userId)
    IN  IF robot.ownerUserId = userId THEN TRUE
        ELSE IF Truthy(robot.ownerGroupId)
                /\ groupResult # {} /\ Row0(groupResult).owner_id = userId
             THEN TRUE
        ELSE IF Truthy(robot.ownerGroupId)
                /\ membershipResult # {} /\ Row0(membershipResult).role = "ADMIN"
             THEN TRUE
        ELSE permissionResult # {} /\ Row0(permissionResult).permission_type = "ADMIN"

\* the argument the controllers build from the robot row they selected
AdminCheckArg(robot) ==
    [serialNumber |-> robot.serial_number, ownerUserId |-> robot.owner_user_id,
     ownerGroupId |-> robot.owner_group_id]

\* ------------------------------------------------------------ lifecycle
\* no tokens: the variable is null, localStorage has no entry
NoTokens == [access |-> 0, refresh |-> 0]
NoRefresh == [refresh |-> 0]

\* the client after the page has loaded with an empty localStorage
InitFrontend ==
    /\ tokens = NoTokens
    /\ storage = NoTokens
    /\ refreshPromise = NoRefresh
    /\ refreshRequests = 0
    /\ calls = {}
    /\ session = "out"

\* the row register inserts for an e-mail address: role 'USER', is_staff by
\* its column default
RegisteredUser(id, email, name) ==
    [id |-> id, email |-> email, name |-> name, role |-> "USER", is_staff |-> FALSE]

\* every user of Users has registered
InitRegistered == users = {RegisteredUser(u, u, "null") : u \in Users}

Init ==
    /\ InitRegistered
    /\ InitFrontend
    /\ groups = {}
    /\ nextGroupId = 1
    /\ group_memberships = {}
    /\ robots = {}
    /\ robot_permissions = {}
    /\ robot_settings = {}
    /\ creating = {}
    /\ resp = Response("none", 0, 0, 0, 0, 0)
    /\ ops = 0
    /\ pending = {}

\* a request arrives
Request == ops < MaxOps /\ ops' = ops + 1

\* --------------------------------------------------- group.controller.ts
\* createGroup, first statement: INSERT INTO groups ... RETURNING *
CreateGroupInsertGroup(user) ==
    /\ Request
    /\ nextGroupId <= MaxGroups
    /\ groups' = groups \cup {[id |-> nextGroupId, owner_id |-> user]}
    /\ nextGroupId' = nextGroupId + 1
    /\ creating' = creating \cup {[group_id |-> nextGroupId, user_id |-> user]}
    /\ resp' = Response("createGroup", 0, user, nextGroupId, 0, 0)
    /\ UNCHANGED <<group_memberships, robots, robot_permissions, robot_settings, pending, users, frontend>>

\* createGroup, second statement: INSERT INTO group_memberships (..., 'ADMIN');
\* a plain INSERT, so a row already there is a unique violation (500)
CreateGroupInsertMembership(c) ==
    /\ c \in creating
    /\ creating' = creating \ {c}
    /\ IF GroupRows(c.group_id) # {} /\ MembershipRows(c.group_id, c.user_id) = {}
       THEN /\ group_memberships' = group_memberships \cup
                    {[group_id |-> c.group_id, user_id |-> c.user_id, role |-> "ADMIN"]}
            /\ resp' = Response("createGroup", 201, c.user_id, c.group_id, 0, 0)
       ELSE /\ group_memberships' = group_memberships
            /\ resp' = Response("createGroup", 500, c.user_id, c.group_id, 0, 0)
    /\ UNCHANGED <<groups, nextGroupId, robots, robot_permissions, robot_settings, ops, pending, users, frontend>>

\* createGroup, second statement rejected by the pool (query() rethrows, the
\* handler's catch passes the error on): nothing undoes the first INSERT
CreateGroupMembershipFails(c) ==
    /\ c \in creating
    /\ creating' = creating \ {c}
    /\ resp' = Response("createGroup", 500, c.user_id, c.group_id, 0, 0)
    /\ UNCHANGED <<tables, ops, pending, users, frontend>>

\* upsertMember's authority check with the role comparison dropped: any
\* membership row passes
UpsertMemberIsAdmin_AnyMember(user, group) ==
    LET isOwner == group.owner_id = user
        membershipResult == MembershipRows(group.id, user)
    IN  isOwner \/ membershipResult # {}

\* upsertMember's authority check
UpsertMemberIsAdmin(user, group) ==
    LET isOwner == group.owner_id = user
        membershipResult == MembershipRows(group.id, user)
    IN  isOwner \/ (membershipResult # {} /\ Row0(membershipResult).role = "ADMIN")

\* upsertMember with ON CONFLICT (group_id, user_id) DO NOTHING: a row already
\* there keeps its role
UpsertMember_DoNothing(user, groupId, user_id, role) ==
    /\ Request
    /\ LET groupResult == GroupRows(groupId)
           reply(status) == Response("upsertMember", status, user, groupId, 0, user_id)
       IN  IF groupResult = {}
           THEN resp' = reply(404) /\ UNCHANGED group_memberships
           ELSE IF ~UpsertMemberIsAdmin(user, Row0(groupResult))
           THEN resp' = reply(403) /\ UNCHANGED group_memberships
           ELSE IF user_id \notin Users
           THEN resp' = reply(500) /\ UNCHANGED group_memberships
           ELSE /\ group_memberships' =
                     IF MembershipRows(groupId, user_id) # {} THEN group_memberships
                     ELSE group_memberships
                          \cup {[group_id |-> groupId, user_id |-> user_id, role |-> role]}
                /\ resp' = reply(200)
    /\ UNCHANGED <<groups, nextGroupId, robots, robot_permissions, robot_settings, creating, pending, users, frontend>>

UpsertMember(user, groupId, user_id, role) ==
    /\ Request
    /\ LET groupResult == GroupRows(groupId)
           reply(status) == Response("upsertMember", status, user, groupId, 0, user_id)
       IN  IF groupResult = {}
           THEN resp' = reply(404) /\ UNCHANGED group_memberships
           ELSE IF ~UpsertMemberIsAdmin(user, Row0(groupResult))
           THEN resp' = reply(403) /\ UNCHANGED group_memberships
           ELSE IF user_id \notin Users
           THEN resp' = reply(500) /\ UNCHANGED group_memberships
           ELSE /\ group_memberships' =
                     (group_memberships \ MembershipRows(groupId, user_id))
                     \cup {[group_id |-> groupId, user_id |-> user_id, role |-> role]}
                /\ resp' = reply(200)
    /\ UNCHANGED <<groups, nextGroupId, robots, robot_permissions, robot_settings, creating, pending, users, frontend>>

\* removeMember's authority check
RemoveMemberIsAdmin(user, group) ==
    LET isOwner == group.owner_id = user
        membershipResult == MembershipRows(group.id, user)
    IN  isOwner \/ (membershipResult # {} /\ Row0(membershipResult).role = "ADMIN")

RemoveMember(user, groupId, userIdNum) ==
    /\ Request
    /\ LET groupResult == GroupRows(groupId)
           reply(status) == Response("removeMember", status, user, groupId, 0, userIdNum)
       IN  IF groupResult = {}
           THEN resp' = reply(404) /\ UNCHANGED group_memberships
           ELSE IF ~RemoveMemberIsAdmin(user, Row0(groupResult))
           THEN resp' = reply(403) /\ UNCHANGED group_memberships
           ELSE IF MembershipRows(groupId, userIdNum) = {}
           THEN resp' = reply(404) /\ UNCHANGED group_memberships
           ELSE IF Row0(groupResult).owner_id = userIdNum
           THEN resp' = reply(400) /\ UNCHANGED group_memberships
           ELSE /\ group_memberships' =
                     group_memberships \ MembershipRows(groupId, userIdNum)
                /\ resp' = reply(204)
    /\ UNCHANGED <<groups, nextGroupId, robots, robot_permissions, robot_settings, creating, pending, users, frontend>>

\* createGroupRobot's authority check
CreateGroupRobotIsAdmin(user, group) ==
    LET membershipResult == MembershipRows(group.id, user)
        isOwner == group.owner_id = user
        isAdmin == membershipResult # {} /\ Row0(membershipResult).role = "ADMIN"
    IN  ~(~isOwner /\ ~isAdmin)

CreateGroupRobot(user, groupId, serial_number) ==
    /\ Request
    /\ LET groupResult == GroupRows(groupId)
           reply(status) ==
               Response("createGroupRobot", status, user, groupId, serial_number, 0)
       IN  IF groupResult = {}
           THEN resp' = reply(404) /\ UNCHANGED robots
           ELSE IF ~CreateGroupRobotIsAdmin(user, Row0(groupResult))
           THEN resp' = reply(403) /\ UNCHANGED robots
           ELSE IF RobotRows(serial_number) # {}
           THEN resp' = reply(400) /\ UNCHANGED robots
           ELSE /\ robots' = robots \cup
                     {[serial_number |-> serial_number, owner_user_id |-> NULL,
                       owner_group_id |-> groupId, assigned_user_id |-> NULL]}
                /\ resp' = reply(201)
    /\ UNCHANGED <<groups, nextGroupId, group_memberships, robot_permissions,
                   robot_settings, creating, pending, users, frontend>>

\* the rows ON DELETE CASCADE removes with the robots of the given serial numbers
CascadeRobots(serials) ==
    /\ robots' = {r \in robots : r.serial_number \notin serials}
    /\ robot_permissions' =
           {p \in robot_permissions : p.robot_serial_number \notin serials}
    /\ robot_settings' = {x \in robot_settings : x.robot_serial_number \notin serials}

DeleteGroup(user, groupId) ==
    /\ Request
    /\ LET groupResult == GroupRows(groupId)
           reply(status) == Response("deleteGroup", status, user, groupId, 0, 0)
       IN  IF groupResult = {}
           THEN resp' = reply(404) /\ UNCHANGED tables
           ELSE IF Row0(groupResult).owner_id # user
           THEN resp' = reply(403) /\ UNCHANGED tables
           ELSE /\ groups' = groups \ groupResult
                /\ group_memberships' = {m \in group_memberships : m.group_id # groupId}
                /\ CascadeRobots({r.serial_number : r \in
                                     {x \in robots : x.owner_group_id = groupId}})
                /\ nextGroupId' = nextGroupId
                /\ resp' = reply(204)
    /\ UNCHANGED <<creating, pending, users, frontend>>

\* --------------------------------------------------- robot.controller.ts
\* createRobot's authority check on the group branch
CreateRobotIsAdmin(user, group) ==
    LET membershipResult == MembershipRows(group.id, user)
        isOwner == group.owner_id = user
        isAdmin == membershipResult # {} /\ Row0(membershipResult).role = "ADMIN"
    IN  ~(~isOwner /\ ~isAdmin)

\* createRobot writing req.user.id as owner_user_id on the group branch too, on
\* a table without the robot_owner_xor check
CreateRobot_BothOwners(user, serial_number, owner_group_id) ==
    /\ Request
    /\ LET groupResult == GroupRows(owner_group_id)
           reply(status) ==
               Response("createRobot", status, user, owner_group_id, serial_number, 0)
       IN  IF Truthy(owner_group_id) /\ groupResult = {}
           THEN resp' = reply(404) /\ UNCHANGED robots
           ELSE IF Truthy(owner_group_id) /\ ~CreateRobotIsAdmin(user, Row0(groupResult))
           THEN resp' = reply(403) /\ UNCHANGED robots
           ELSE IF RobotRows(serial_number) # {}
           THEN resp' = reply(400) /\ UNCHANGED robots
           ELSE /\ robots' = robots \cup
                     {[serial_number |-> serial_number, owner_user_id |-> user,
                       owner_group_id |->
                           IF Truthy(owner_group_id) THEN owner_group_id ELSE NULL,
                       assigned_user_id |-> NULL]}
                /\ resp' = reply(201)
    /\ UNCHANGED <<groups, nextGroupId, group_memberships, robot_permissions,
                   robot_settings, creating, pending, users, frontend>>

CreateRobot(user, serial_number, owner_group_id) ==
    /\ Request
    /\ LET groupResult == GroupRows(owner_group_id)
           reply(status) ==
               Response("createRobot", status, user, owner_group_id, serial_number, 0)
       IN  IF Truthy(owner_group_id)
           THEN IF groupResult = {}
                THEN resp' = reply(404) /\ UNCHANGED robots
                ELSE IF ~CreateRobotIsAdmin(user, Row0(groupResult))
                THEN resp' = reply(403) /\ UNCHANGED robots
                ELSE IF RobotRows(serial_number) # {}
                THEN resp' = reply(400) /\ UNCHANGED robots
                ELSE /\ robots' = robots \cup
                          {[serial_number |-> serial_number, owner_user_id |-> NULL,
                            owner_group_id |-> owner_group_id, assigned_user_id |-> NULL]}
                     /\ resp' = reply(201)
           ELSE IF RobotRows(serial_number) # {}
                THEN resp' = reply(400) /\ UNCHANGED robots
                ELSE /\ robots' = robots \cup
                          {[serial_number |-> serial_number, owner_user_id |-> user,
                            owner_group_id |-> NULL, assigned_user_id |-> NULL]}
                     /\ resp' = reply(201)
    /\ UNCHANGED <<groups, nextGroupId, group_memberships, robot_permissions,
                   robot_settings, creating, pending, users, frontend>>

\* the status getRobot answers with, for a robot that exists or not
getRobotStatus(user, serial) ==
    IF RobotRows(serial) = {} THEN 404
    ELSE IF serial \notin getAccessibleRobots(user) THEN 403
    ELSE 200

\* name and model are the only columns of the SET list, and the rows of the
\* model carry neither; hasUpdates: the body names one of them
UpdateRobot(user, serial, hasUpdates) ==
    /\ Request
    /\ LET robotResult == RobotRows(serial)
           robot == Row0(robotResult)
           reply(status) == Response("updateRobot", status, user, 0, serial, 0)
       IN  IF robotResult = {}
           THEN resp' = reply(404)
           ELSE IF ~hasAdminPermission(user, AdminCheckArg(robot))
           THEN resp' = reply(403)
           ELSE IF ~hasUpdates
           THEN resp' = reply(getRobotStatus(user, serial))
           ELSE resp' = reply(200)
    /\ UNCHANGED <<tables, creating, pending, users, frontend>>

\* deleteRobot's refusal: neither the owner, nor the owner or an ADMIN member
\* of the owning group
DeleteRobotDenied(user, robot) ==
    LET groupResult == GroupRows(robot.owner_group_id)
        membershipResult == MembershipRows(robot.owner_group_id, user)
    IN  /\ robot.owner_user_id # user
        /\ IF Truthy(robot.owner_group_id)
           THEN /\ (groupResult = {} \/ Row0(groupResult).owner_id # user)
                /\ (membershipResult = {} \/ Row0(membershipResult).role # "ADMIN")
           ELSE TRUE

\* deleteRobot on a schema whose robot_permissions and robot_settings foreign
\* keys lack ON DELETE CASCADE and are not enforced
DeleteRobot_NoCascade(user, serial) ==
    /\ Request
    /\ LET robotResult == RobotRows(serial)
           reply(status) == Response("deleteRobot", status, user, 0, serial, 0)
       IN  IF robotResult = {}
           THEN resp' = reply(404) /\ UNCHANGED robots
           ELSE IF DeleteRobotDenied(user, Row0(robotResult))
           THEN resp' = reply(403) /\ UNCHANGED robots
           ELSE robots' = robots \ robotResult /\ resp' = reply(204)
    /\ UNCHANGED <<groups, nextGroupId, group_memberships, robot_permissions,
                   robot_settings, creating, pending, users, frontend>>

DeleteRobot(user, serial) ==
    /\ Request
    /\ LET robotResult == RobotRows(serial)
           reply(status) == Response("deleteRobot", status, user, 0, serial, 0)
       IN  IF robotResult = {}
           THEN /\ resp' = reply(404)
                /\ UNCHANGED <<robots, robot_permissions, robot_settings>>
           ELSE IF DeleteRobotDenied(user, Row0(robotResult))
           THEN /\ resp' = reply(403)
                /\ UNCHANGED <<robots, robot_permissions, robot_settings>>
           ELSE /\ CascadeRobots({serial})
                /\ resp' = reply(204)
    /\ UNCHANGED <<groups, nextGroupId, group_memberships, creating, pending, users, frontend>>

AssignRobot(user, serial, user_id) ==
    /\ Request
    /\ LET robotResult == RobotRows(serial)
           robot == Row0(robotResult)
           reply(status) == Response("assignRobot", status, user, 0, serial, user_id)
       IN  IF robotResult = {}
           THEN resp' = reply(404) /\ UNCHANGED robots
           ELSE IF ~Truthy(robot.owner_group_id)
           THEN resp' = reply(400) /\ UNCHANGED robots
           ELSE IF ~hasAdminPermission(user, AdminCheckArg(robot))
           THEN resp' = reply(403) /\ UNCHANGED robots
           ELSE IF MembershipRows(robot.owner_group_id, user_id) = {}
           THEN resp' = reply(400) /\ UNCHANGED robots
           ELSE /\ robots' = (robots \ robotResult) \cup
                          {[robot EXCEPT !.assigned_user_id = user_id]}
                /\ resp' = reply(getRobotStatus(user, serial))
    /\ UNCHANGED <<groups, nextGroupId, group_memberships, robot_permissions,
                   robot_settings, creating, pending, users, frontend>>

\* robot.owner_user_id === user_id: strict equality of the column, a number,
\* with the value of the body
StrictEquals(column, bodyValue) == bodyValue.type = "number" /\ bodyValue.value = column

\* the INTEGER PostgreSQL reads from a query parameter, sent as text either way
SqlInteger(bodyValue) == bodyValue.value

\* user_id: a value of BodyUserIds
GrantPermission(user, serial, user_id, permission_type) ==
    /\ Request
    /\ LET robotResult == RobotRows(serial)
           robot == Row0(robotResult)
           reply(status) ==
               Response("grantPermission", status, user, 0, serial, SqlInteger(user_id))
       IN  IF robotResult = {}
           THEN resp' = reply(404) /\ UNCHANGED robot_permissions
           ELSE IF ~hasAdminPermission(user, AdminCheckArg(robot))
           THEN resp' = reply(403) /\ UNCHANGED robot_permissions
           ELSE IF StrictEquals(robot.owner_user_id, user_id)
           THEN resp' = reply(400) /\ UNCHANGED robot_permissions
           ELSE IF SqlInteger(user_id) \notin Users
           THEN resp' = reply(500) /\ UNCHANGED robot_permissions
           ELSE /\ robot_permissions' =
                     (robot_permissions \ PermissionRows(serial, SqlInteger(user_id))) \cup
                     {[robot_serial_number |-> serial, user_id |-> SqlInteger(user_id),
                       permission_type |-> permission_type, granted_by_id |-> user]}
                /\ resp' = reply(200)
    /\ UNCHANGED <<groups, nextGroupId, group_memberships, robots, robot_settings, creating, pending, users, frontend>>

\* revokePermission with its two refusals swapped: the owner comparison
\* before the lookup of the permission row
RevokePermission_OwnerCheckFirst(user, serial, userIdNum) ==
    /\ Request
    /\ LET robotResult == RobotRows(serial)
           robot == Row0(robotResult)
           reply(status) == Response("revokePermission", status, user, 0, serial, userIdNum)
       IN  IF robotResult = {}
           THEN resp' = reply(404) /\ UNCHANGED robot_permissions
           ELSE IF ~hasAdminPermission(user, AdminCheckArg(robot))
           THEN resp' = reply(403) /\ UNCHANGED robot_permissions
           ELSE IF robot.owner_user_id = userIdNum
           THEN resp' = reply(400) /\ UNCHANGED robot_permissions
           ELSE IF PermissionRows(serial, userIdNum) = {}
           THEN resp' = reply(404) /\ UNCHANGED robot_permissions
           ELSE /\ robot_permissions' = robot_permissions \ PermissionRows(serial, userIdNum)
                /\ resp' = reply(204)
    /\ UNCHANGED <<groups, nextGroupId, group_memberships, robots, robot_settings, creating, pending, users, frontend>>

\* revokePermission answering 204 with its DELETE left out
RevokePermission_KeepsRow(user, serial, userIdNum) ==
    /\ Request
    /\ LET robotResult == RobotRows(serial)
           robot == Row0(robotResult)
           reply(status) == Response("revokePermission", status, user, 0, serial, userIdNum)
       IN  IF robotResult = {}
           THEN resp' = reply(404)
           ELSE IF ~hasAdminPermission(user, AdminCheckArg(robot))
           THEN resp' = reply(403)
           ELSE IF PermissionRows(serial, userIdNum) = {}
           THEN resp' = reply(404)
           ELSE IF robot.owner_user_id = userIdNum
           THEN resp' = reply(400)
           ELSE resp' = reply(204)
    /\ UNCHANGED <<tables, creating, pending, users, frontend>>

RevokePermission(user, serial, userIdNum) ==
    /\ Request
    /\ LET robotResult == RobotRows(serial)
           robot == Row0(robotResult)
           reply(status) == Response("revokePermission", status, user, 0, serial, userIdNum)
       IN  IF robotResult = {}
           THEN resp' = reply(404) /\ UNCHANGED robot_permissions
           ELSE IF ~hasAdminPermission(user, AdminCheckArg(robot))
           THEN resp' = reply(403) /\ UNCHANGED robot_permissions
           ELSE IF PermissionRows(serial, userIdNum) = {}
           THEN resp' = reply(404) /\ UNCHANGED robot_permissions
           ELSE IF robot.owner_user_id = userIdNum
           THEN resp' = reply(400) /\ UNCHANGED robot_permissions
           ELSE /\ robot_permissions' = robot_permissions \ PermissionRows(serial, userIdNum)
                /\ resp' = reply(204)
    /\ UNCHANGED <<groups, nextGroupId, group_memberships, robots, robot_settings, creating, pending, users, frontend>>

\* the settings handlers' access check
SettingsHasAccess(user, serial) == serial \in getAccessibleRobots(user)

GetRobotSettings(user, serial) ==
    /\ Request
    /\ LET reply(status) == Response("getRobotSettings", status, user, 0, serial, 0)
       IN  IF ~SettingsHasAccess(user, serial)
           THEN resp' = reply(403) /\ UNCHANGED robot_settings
           ELSE /\ robot_settings' =
                     IF SettingRows(serial, user) # {} THEN robot_settings
                     ELSE robot_settings \cup
                          {[robot_serial_number |-> serial, user_id |-> user, settings |-> {}]}
                /\ resp' = [reply(200) EXCEPT
                                !.body = Row0(SettingRows(serial, user)').settings]
    /\ UNCHANGED <<groups, nextGroupId, group_memberships, robots, robot_permissions, creating, pending, users, frontend>>

\* JSON.stringify(settings || {}) read back as $3::jsonb
OrEmptyObject(settings) == IF settings.type = "null" THEN {} ELSE settings.value

\* updateRobotSettings merging the new keys into the stored object
\* (DO UPDATE SET settings = robot_settings.settings || $3::jsonb)
UpdateRobotSettings_Merge(user, serial, settings) ==
    /\ Request
    /\ LET reply(status) == Response("updateRobotSettings", status, user, 0, serial, 0)
           stored == IF SettingRows(serial, user) = {} THEN {}
                     ELSE Row0(SettingRows(serial, user)).settings
       IN  IF ~SettingsHasAccess(user, serial)
           THEN resp' = reply(403) /\ UNCHANGED robot_settings
           ELSE /\ robot_settings' =
                     (robot_settings \ SettingRows(serial, user)) \cup
                     {[robot_serial_number |-> serial, user_id |-> user,
                       settings |-> stored \cup OrEmptyObject(settings)]}
                /\ resp' = [reply(200) EXCEPT
                                !.body = Row0(SettingRows(serial, user)').settings]
    /\ UNCHANGED <<groups, nextGroupId, group_memberships, robots, robot_permissions, creating, pending, users, frontend>>

\* updateRobotSettings on a table keyed by the robot alone: the write replaces
\* whatever row the robot has, of any user
UpdateRobotSettings_PerRobot(user, serial, settings) ==
    /\ Request
    /\ LET reply(status) == Response("updateRobotSettings", status, user, 0, serial, 0)
       IN  IF ~SettingsHasAccess(user, serial)
           THEN resp' = reply(403) /\ UNCHANGED robot_settings
           ELSE /\ robot_settings' =
                     {x \in robot_settings : x.robot_serial_number # serial} \cup
                     {[robot_serial_number |-> serial, user_id |-> user,
                       settings |-> OrEmptyObject(settings)]}
                /\ resp' = [reply(200) EXCEPT !.body = OrEmptyObject(settings)]
    /\ UNCHANGED <<groups, nextGroupId, group_memberships, robots, robot_permissions, creating, pending, users, frontend>>

UpdateRobotSettings(user, serial, settings) ==
    /\ Request
    /\ LET reply(status) == Response("updateRobotSettings", status, user, 0, serial, 0)
       IN  IF ~SettingsHasAccess(user, serial)
           THEN resp' = reply(403) /\ UNCHANGED robot_settings
           ELSE /\ robot_settings' =
                     (robot_settings \ SettingRows(serial, user)) \cup
                     {[robot_serial_number |-> serial, user_id |-> user,
                       settings |-> OrEmptyObject(settings)]}
                /\ resp' = [reply(200) EXCEPT
                                !.body = Row0(SettingRows(serial, user)').settings]
    /\ UNCHANGED <<groups, nextGroupId, group_memberships, robots, robot_permissions, creating, pending, users, frontend>>

\* ----------------------------------------- auth and user controllers
UserRows(userId) == {u \in users : u.id = userId}

\* users.id SERIAL: no handler deletes a user, so the next id follows the rows
NextUserId == Cardinality(users) + 1

\* name || null
NameOrNull(name) == IF name = "" THEN "null" ELSE name

Register(email, name) ==
    /\ Request
    /\ LET id == NextUserId
           reply(status) == Response("register", status, id, 0, 0, 0)
       IN  IF \E u \in users : u.email = email
           THEN resp' = reply(400) /\ UNCHANGED users
           ELSE /\ users' = users \cup {RegisteredUser(id, email, NameOrNull(name))}
                /\ resp' = reply(201)
    /\ UNCHANGED <<tables, creating, pending, frontend>>

\* updateProfile writing the role of the body whenever it is given
UpdateProfile_RoleUnchecked(userId, email, name, role) ==
    /\ Request
    /\ LET reply(status) == Response("updateProfile", status, userId, 0, 0, 0)
           user == Row0(UserRows(userId))
       IN  IF UserRows(userId) = {}
           THEN resp' = reply(401) /\ UNCHANGED users
           ELSE /\ users' = (users \ {user}) \cup
                         {[user EXCEPT !.role = IF role # "" THEN role ELSE @]}
                /\ resp' = reply(200)
    /\ UNCHANGED <<tables, creating, pending, frontend>>

\* authenticate loads req.user from the users row of the token's user id
UpdateProfile(userId, email, name, role) ==
    /\ Request
    /\ LET reply(status) == Response("updateProfile", status, userId, 0, 0, 0)
           user == Row0(UserRows(userId))
           mayChangeRoles == user.role = "ADMIN" \/ user.is_staff
       IN  IF UserRows(userId) = {}
           THEN resp' = reply(401) /\ UNCHANGED users
           ELSE IF role # "" /\ role # user.role /\ ~mayChangeRoles
           THEN resp' = reply(403) /\ UNCHANGED users
           ELSE IF /\ Truthy(email) /\ email # user.email
                   /\ \E u \in users : u.email = email /\ u.id # userId
           THEN resp' = reply(400) /\ UNCHANGED users
           ELSE /\ users' = (users \ {user}) \cup
                         {[user EXCEPT
                             !.email = IF Truthy(email) THEN email ELSE @,
                             !.name = IF name # "undefined" THEN NameOrNull(name) ELSE @,
                             !.role = IF role # "" /\ mayChangeRoles THEN role ELSE @]}
                /\ resp' = reply(200)
    /\ UNCHANGED <<tables, creating, pending, frontend>>

\* ------------------------------------------------- AuthContext.tsx
\* The client runs on one thread: each action below is the code between two
\* awaits. An API call in flight is a record of calls: [id, pc, auth, retry],
\* auth the access token of its Authorization header (0: none), retry its
\* _retry flag, pc one of "sent", "awaiting" (the refresh), "resent",
\* "resolved", "rejected".
setAuthTokens(next) == tokens' = next /\ storage' = next

clearAuthTokens == tokens' = NoTokens /\ storage' = NoTokens

\* the call c moves on to pc
Moved(c, pc) == calls' = (calls \ {c}) \cup {[c EXCEPT !.pc = pc]}

\* login or register has resolved with the tokens of the response
handleAuthSuccess(access, refresh) ==
    /\ ops' = ops + 1
    /\ setAuthTokens([access |-> access, refresh |-> refresh])
    /\ session' = "in"
    /\ UNCHANGED <<tables, creating, pending, users, resp, refreshPromise, refreshRequests,
                   calls>>

logout ==
    /\ ops' = ops + 1
    /\ clearAuthTokens
    /\ session' = "out"
    /\ UNCHANGED <<tables, creating, pending, users, resp, refreshPromise, refreshRequests,
                   calls>>

\* apiClient.interceptors.request: a call leaves with the stored access token
RequestInterceptor ==
    /\ ops' = ops + 1
    /\ tokens' = IF storage # NoTokens THEN storage ELSE tokens
    /\ calls' = calls \cup
           {[id |-> ops + 1, pc |-> "sent", auth |-> tokens'.access, retry |-> FALSE]}
    /\ UNCHANGED <<tables, creating, pending, users, resp, storage, refreshPromise,
                   refreshRequests, session>>

\* a 2xx response
ResponseOk(c) ==
    /\ c.pc \in {"sent", "resent"}
    /\ Moved(c, "resolved")
    /\ UNCHANGED <<tables, creating, pending, users, resp, ops, tokens, storage,
                   refreshPromise, refreshRequests, session>>

\* an error response other than 401
ResponseError(c) ==
    /\ c.pc \in {"sent", "resent"}
    /\ Moved(c, "rejected")
    /\ UNCHANGED <<tables, creating, pending, users, resp, ops, tokens, storage,
                   refreshPromise, refreshRequests, session>>

\* refreshAccessToken: the refresh request is posted unless its promise exists
refreshAccessToken ==
    /\ tokens' = storage
    /\ IF refreshPromise = NoRefresh
       THEN /\ refreshPromise' = [refresh |-> storage.refresh]
            /\ refreshRequests' = refreshRequests + 1
       ELSE UNCHANGED <<refreshPromise, refreshRequests>>

\* on a 401 every call posts a refresh request of its own
Response401_RefreshPerCall(c) ==
    /\ c.pc \in {"sent", "resent"}
    /\ IF ~c.retry /\ storage.refresh # 0
       THEN /\ tokens' = storage
            /\ refreshPromise' = [refresh |-> storage.refresh]
            /\ refreshRequests' = refreshRequests + 1
            /\ Moved(c, "awaiting")
            /\ UNCHANGED storage
       ELSE /\ clearAuthTokens /\ Moved(c, "rejected")
            /\ UNCHANGED <<refreshPromise, refreshRequests>>
    /\ UNCHANGED <<tables, creating, pending, users, resp, ops, session>>

\* on a 401 a call awaits the refresh whether it was sent again or not
Response401_IgnoresRetry(c) ==
    /\ c.pc \in {"sent", "resent"}
    /\ IF storage.refresh # 0
       THEN /\ refreshAccessToken
            /\ Moved(c, "awaiting")
            /\ UNCHANGED storage
       ELSE /\ clearAuthTokens /\ Moved(c, "rejected")
            /\ UNCHANGED <<refreshPromise, refreshRequests>>
    /\ UNCHANGED <<tables, creating, pending, users, resp, ops, session>>

\* apiClient.interceptors.response on a 401, up to the await of
\* refreshAccessToken
Response401(c) ==
    /\ c.pc \in {"sent", "resent"}
    /\ IF ~c.retry
       THEN IF storage.refresh = 0
            THEN /\ clearAuthTokens /\ Moved(c, "rejected")
                 /\ UNCHANGED <<refreshPromise, refreshRequests>>
            ELSE /\ refreshAccessToken
                 /\ Moved(c, "awaiting")
                 /\ UNCHANGED storage
       ELSE /\ clearAuthTokens /\ Moved(c, "rejected")
            /\ UNCHANGED <<refreshPromise, refreshRequests>>
    /\ UNCHANGED <<tables, creating, pending, users, resp, ops, session>>

\* the refresh request has failed and the rejection leaves the tokens in place
RefreshRejects_KeepsTokens ==
    /\ refreshRequests > 0
    /\ refreshRequests' = refreshRequests - 1
    /\ refreshPromise' = NoRefresh
    /\ calls' = {IF c.pc = "awaiting" THEN [c EXCEPT !.pc = "rejected"] ELSE c : c \in calls}
    /\ UNCHANGED <<tables, creating, pending, users, resp, ops, session, tokens, storage>>

\* the refresh request has failed: its catch, its finally, and the catch of
\* every call that awaits it
RefreshRejects ==
    /\ refreshRequests > 0
    /\ refreshRequests' = refreshRequests - 1
    /\ clearAuthTokens
    /\ refreshPromise' = NoRefresh
    /\ calls' = {IF c.pc = "awaiting" THEN [c EXCEPT !.pc = "rejected"] ELSE c : c \in calls}
    /\ UNCHANGED <<tables, creating, pending, users, resp, ops, session>>

\* the refresh request has succeeded, with a rotated refresh token or none (0):
\* its then, its finally, and every call that awaits it sent again, through the
\* request interceptor
RefreshResolves(access, refresh) ==
    /\ refreshRequests > 0
    /\ refreshRequests' = refreshRequests - 1
    /\ setAuthTokens([access |-> access,
                      refresh |-> IF refresh # 0 THEN refresh ELSE refreshPromise.refresh])
    /\ refreshPromise' = NoRefresh
    /\ calls' = {IF c.pc = "awaiting"
                 THEN [c EXCEPT !.pc = "resent", !.auth = tokens'.access, !.retry = TRUE]
                 ELSE c : c \in calls}
    /\ UNCHANGED <<tables, creating, pending, users, resp, ops, session>>

\* ------------------------------------------- handlers, statement by statement
\* Each handler awaits its queries one by one on the pool, so the statements of
\* requests in flight interleave. A handler is taken here in two steps: its
\* SELECTs and refusals (Checks), then its single INSERT, upsert or DELETE with
\* the answer. A request between the two is a record of pending.
InFlight(op, user, group, serial, target, arg, settings) ==
    [id |-> ops + 1, op |-> op, user |-> user, group |-> group, serial |-> serial,
     target |-> target, arg |-> arg, settings |-> settings]

\* the answer to the request c
Answer(c, status) == Response(c.op, status, c.user, c.group, c.serial, c.target)

\* the Checks step: refused with a status, or passed on to the write (status 0)
Checked(c, status) ==
    /\ Request
    /\ resp' = Answer(c, status)
    /\ pending' = IF status = 0 THEN pending \cup {c} ELSE pending
    /\ UNCHANGED <<tables, creating, users, frontend>>

\* a write step takes its request off pending
Written(c, op) ==
    /\ c \in pending
    /\ c.op = op
    /\ pending' = pending \ {c}
    /\ UNCHANGED <<creating, ops, users, frontend>>

CreateRobotChecks(user, serial_number, owner_group_id) ==
    LET groupResult == GroupRows(owner_group_id)
        c == InFlight("createRobot", user, owner_group_id, serial_number, 0, "", NoSettings)
    IN  Checked(c, IF ~Truthy(owner_group_id) THEN 0
                   ELSE IF groupResult = {} THEN 404
                   ELSE IF ~CreateRobotIsAdmin(user, Row0(groupResult)) THEN 403
                   ELSE 0)

\* createRobot's INSERT on a table without the primary key on serial_number
CreateRobotInsert_NoPrimaryKey(c) ==
    /\ Written(c, "createRobot")
    /\ robots' = robots \cup
           {[serial_number |-> c.serial,
             owner_user_id |-> IF Truthy(c.group) THEN NULL ELSE c.user,
             owner_group_id |-> IF Truthy(c.group) THEN c.group ELSE NULL,
             assigned_user_id |-> NULL]}
    /\ resp' = Answer(c, 201)
    /\ UNCHANGED <<groups, nextGroupId, group_memberships, robot_permissions, robot_settings>>

\* createRobot's INSERT INTO robots: 23505 on the primary key is answered 400,
\* a group deleted since the check is a foreign-key error (500)
CreateRobotInsert(c) ==
    /\ Written(c, "createRobot")
    /\ IF RobotRows(c.serial) # {}
       THEN resp' = Answer(c, 400) /\ UNCHANGED robots
       ELSE IF Truthy(c.group) /\ GroupRows(c.group) = {}
       THEN resp' = Answer(c, 500) /\ UNCHANGED robots
       ELSE /\ robots' = robots \cup
                   {[serial_number |-> c.serial,
                     owner_user_id |-> IF Truthy(c.group) THEN NULL ELSE c.user,
                     owner_group_id |-> IF Truthy(c.group) THEN c.group ELSE NULL,
                     assigned_user_id |-> NULL]}
            /\ resp' = Answer(c, 201)
    /\ UNCHANGED <<groups, nextGroupId, group_memberships, robot_permissions, robot_settings>>

CreateGroupRobotChecks(user, groupId, serial_number) ==
    LET groupResult == GroupRows(groupId)
        c == InFlight("createGroupRobot", user, groupId, serial_number, 0, "", NoSettings)
    IN  Checked(c, IF groupResult = {} THEN 404
                   ELSE IF ~CreateGroupRobotIsAdmin(user, Row0(groupResult)) THEN 403
                   ELSE 0)

CreateGroupRobotInsert(c) ==
    /\ Written(c, "createGroupRobot")
    /\ IF RobotRows(c.serial) # {}
       THEN resp' = Answer(c, 400) /\ UNCHANGED robots
       ELSE IF GroupRows(c.group) = {}
       THEN resp' = Answer(c, 500) /\ UNCHANGED robots
       ELSE /\ robots' = robots \cup
                   {[serial_number |-> c.serial, owner_user_id |-> NULL,
                     owner_group_id |-> c.group, assigned_user_id |-> NULL]}
            /\ resp' = Answer(c, 201)
    /\ UNCHANGED <<groups, nextGroupId, group_memberships, robot_permissions, robot_settings>>

UpsertMemberChecks(user, groupId, user_id, role) ==
    LET groupResult == GroupRows(groupId)
        c == InFlight("upsertMember", user, groupId, 0, user_id, role, NoSettings)
    IN  Checked(c, IF groupResult = {} THEN 404
                   ELSE IF ~UpsertMemberIsAdmin(user, Row0(groupResult)) THEN 403
                   ELSE 0)

\* INSERT INTO group_memberships ... ON CONFLICT (group_id, user_id) DO UPDATE SET role
UpsertMemberUpsert(c) ==
    /\ Written(c, "upsertMember")
    /\ IF GroupRows(c.group) = {} \/ c.target \notin Users
       THEN resp' = Answer(c, 500) /\ UNCHANGED group_memberships
       ELSE /\ group_memberships' =
                   (group_memberships \ MembershipRows(c.group, c.target))
                   \cup {[group_id |-> c.group, user_id |-> c.target, role |-> c.arg]}
            /\ resp' = Answer(c, 200)
    /\ UNCHANGED <<groups, nextGroupId, robots, robot_permissions, robot_settings>>

GrantPermissionChecks(user, serial, user_id, permission_type) ==
    LET robotResult == RobotRows(serial)
        robot == Row0(robotResult)
        c == InFlight("grantPermission", user, 0, serial, SqlInteger(user_id),
                      permission_type, NoSettings)
    IN  Checked(c, IF robotResult = {} THEN 404
                   ELSE IF ~hasAdminPermission(user, AdminCheckArg(robot)) THEN 403
                   ELSE IF StrictEquals(robot.owner_user_id, user_id) THEN 400
                   ELSE 0)

\* grantPermission's INSERT on a table without UNIQUE(robot_serial_number, user_id)
GrantPermissionUpsert_PlainInsert(c) ==
    /\ Written(c, "grantPermission")
    /\ IF RobotRows(c.serial) = {} \/ c.target \notin Users
       THEN resp' = Answer(c, 500) /\ UNCHANGED robot_permissions
       ELSE /\ robot_permissions' = robot_permissions \cup
                   {[robot_serial_number |-> c.serial, user_id |-> c.target,
                     permission_type |-> c.arg, granted_by_id |-> c.user]}
            /\ resp' = Answer(c, 200)
    /\ UNCHANGED <<groups, nextGroupId, group_memberships, robots, robot_settings>>

\* INSERT INTO robot_permissions ... ON CONFLICT (robot_serial_number, user_id)
\* DO UPDATE SET permission_type, granted_by_id
GrantPermissionUpsert(c) ==
    /\ Written(c, "grantPermission")
    /\ IF RobotRows(c.serial) = {} \/ c.target \notin Users
       THEN resp' = Answer(c, 500) /\ UNCHANGED robot_permissions
       ELSE /\ robot_permissions' =
                   (robot_permissions \ PermissionRows(c.serial, c.target)) \cup
                   {[robot_serial_number |-> c.serial, user_id |-> c.target,
                     permission_type |-> c.arg, granted_by_id |-> c.user]}
            /\ resp' = Answer(c, 200)
    /\ UNCHANGED <<groups, nextGroupId, group_memberships, robots, robot_settings>>

RevokePermissionChecks(user, serial, userIdNum) ==
    LET robotResult == RobotRows(serial)
        robot == Row0(robotResult)
        c == InFlight("revokePermission", user, 0, serial, userIdNum, "", NoSettings)
    IN  Checked(c, IF robotResult = {} THEN 404
                   ELSE IF ~hasAdminPermission(user, AdminCheckArg(robot)) THEN 403
                   ELSE IF PermissionRows(serial, userIdNum) = {} THEN 404
                   ELSE IF robot.owner_user_id = userIdNum THEN 400
                   ELSE 0)

\* DELETE FROM robot_permissions WHERE robot_serial_number = $1 AND user_id = $2
RevokePermissionDelete(c) ==
    /\ Written(c, "revokePermission")
    /\ robot_permissions' = robot_permissions \ PermissionRows(c.serial, c.target)
    /\ resp' = Answer(c, 204)
    /\ UNCHANGED <<groups, nextGroupId, group_memberships, robots, robot_settings>>

GetRobotSettingsChecks(user, serial) ==
    LET c == InFlight("getRobotSettings", user, 0, serial, 0, "", NoSettings)
    IN  Checked(c, IF ~SettingsHasAccess(user, serial) THEN 403 ELSE 0)

\* getRobotSettings' upsert with ON CONFLICT DO UPDATE SET settings = '{}': the
\* read writes the empty object over a row already there
GetRobotSettingsUpsert_Resets(c) ==
    /\ Written(c, "getRobotSettings")
    /\ IF RobotRows(c.serial) = {}
       THEN resp' = Answer(c, 500) /\ UNCHANGED robot_settings
       ELSE /\ robot_settings' =
                   (robot_settings \ SettingRows(c.serial, c.user)) \cup
                   {[robot_serial_number |-> c.serial, user_id |-> c.user, settings |-> {}]}
            /\ resp' = [Answer(c, 200) EXCEPT !.body = {}]
    /\ UNCHANGED <<groups, nextGroupId, group_memberships, robots, robot_permissions>>

\* INSERT INTO robot_settings ... '{}' ON CONFLICT DO UPDATE SET
\* robot_serial_number = robot_settings.robot_serial_number RETURNING settings
GetRobotSettingsUpsert(c) ==
    /\ Written(c, "getRobotSettings")
    /\ IF RobotRows(c.serial) = {}
       THEN resp' = Answer(c, 500) /\ UNCHANGED robot_settings
       ELSE /\ robot_settings' =
                   IF SettingRows(c.serial, c.user) # {} THEN robot_settings
                   ELSE robot_settings \cup
                        {[robot_serial_number |-> c.serial, user_id |-> c.user,
                          settings |-> {}]}
            /\ resp' = [Answer(c, 200) EXCEPT
                            !.body = Row0(SettingRows(c.serial, c.user)').settings]
    /\ UNCHANGED <<groups, nextGroupId, group_memberships, robots, robot_permissions>>

UpdateRobotSettingsChecks(user, serial, settings) ==
    LET c == InFlight("updateRobotSettings", user, 0, serial, 0, "", settings)
    IN  Checked(c, IF ~SettingsHasAccess(user, serial) THEN 403 ELSE 0)

\* INSERT INTO robot_settings ... ON CONFLICT DO UPDATE SET settings = $3::jsonb
\* RETURNING settings
UpdateRobotSettingsUpsert(c) ==
    /\ Written(c, "updateRobotSettings")
    /\ IF RobotRows(c.serial) = {}
       THEN resp' = Answer(c, 500) /\ UNCHANGED robot_settings
       ELSE /\ robot_settings' =
                   (robot_settings \ SettingRows(c.serial, c.user)) \cup
                   {[robot_serial_number |-> c.serial, user_id |-> c.user,
                     settings |-> OrEmptyObject(c.settings)]}
            /\ resp' = [Answer(c, 200) EXCEPT
                            !.body = Row0(SettingRows(c.serial, c.user)').settings]
    /\ UNCHANGED <<groups, nextGroupId, group_memberships, robots, robot_permissions>>

\* ------------------------------------------------------------------ Next
Next ==
    \/ \E u \in Users : CreateGroupInsertGroup(u)
    \/ \E c \in creating : CreateGroupInsertMembership(c)
    \/ \E c \in creating : CreateGroupMembershipFails(c)
    \/ \E u \in Users, g \in GroupIds, t \in Users, r \in GroupRoles :
           UpsertMember(u, g, t, r)
    \/ \E u \in Users, g \in GroupIds, t \in Users : RemoveMember(u, g, t)
    \/ \E u \in Users, g \in GroupIds, s \in Serials : CreateGroupRobot(u, g, s)
    \/ \E u \in Users, s \in Serials, g \in GroupInputs : CreateRobot(u, s, g)
    \/ \E u \in Users, s \in Serials, t \in UserIds : AssignRobot(u, s, t)
    \/ \E u \in Users, s \in Serials, t \in BodyUserIds, p \in PermissionTypes :
           GrantPermission(u, s, t, p)
    \/ \E u \in Users, s \in Serials, t \in Users : RevokePermission(u, s, t)
    \/ \E u \in Users, s \in Serials : GetRobotSettings(u, s)
    \/ \E u \in Users, s \in Serials, b \in BodySettings : UpdateRobotSettings(u, s, b)
    \/ \E u \in Users, s \in Serials : DeleteRobot(u, s)
    \/ \E u \in Users, g \in GroupIds : DeleteGroup(u, g)

Spec == Init /\ [][Next]_vars

\* The group-administration handlers alone: the requests that read or write
\* groups and group_memberships and create group-owned robots.
AdminBudget == ops < MaxAdminOps

NextGroupAdmin ==
    \/ \E u \in Users : AdminBudget /\ CreateGroupInsertGroup(u)
    \/ \E c \in creating : CreateGroupInsertMembership(c)
    \/ \E c \in creating : CreateGroupMembershipFails(c)
    \/ \E u \in Users, g \in GroupIds, t \in Users, r \in GroupRoles :
           AdminBudget /\ UpsertMember(u, g, t, r)
    \/ \E u \in Users, g \in GroupIds, t \in Users : AdminBudget /\ RemoveMember(u, g, t)
    \/ \E u \in Users, g \in GroupIds, s \in Serials :
           AdminBudget /\ CreateGroupRobot(u, g, s)
    \/ \E u \in Users, s \in Serials, g \in GroupInputs :
           AdminBudget /\ CreateRobot(u, s, g)

SpecGroupAdmin == Init /\ [][NextGroupAdmin]_vars

\* The handlers that read or write robot_permissions, with the requests that
\* create and delete the robots and groups their checks read; createGroup's
\* second INSERT succeeds here.
PermBudget == ops < MaxPermOps

NextPermissions ==
    \/ \E u \in Actors : PermBudget /\ CreateGroupInsertGroup(u)
    \/ \E c \in creating : CreateGroupInsertMembership(c)
    \/ \E u \in Actors, s \in Serials, g \in GroupInputs :
           PermBudget /\ CreateRobot(u, s, g)
    \/ \E u \in Actors, s \in Serials, t \in {0} \cup Actors : PermBudget /\ AssignRobot(u, s, t)
    \/ \E u \in Actors, s \in Serials, t \in BodyUserIds, p \in PermissionTypes :
           PermBudget /\ t.value \in Actors /\ GrantPermission(u, s, t, p)
    \/ \E u \in Actors, s \in Serials, t \in Actors : PermBudget /\ RevokePermission(u, s, t)
    \/ \E u \in Actors, s \in Serials : PermBudget /\ DeleteRobot(u, s)

SpecPermissions == Init /\ [][NextPermissions]_vars

\* Concurrent requests, statement by statement, so that the checks and the
\* writes of requests in flight interleave.
RaceBudget == ops < MaxRaceOps

\* Concurrent creations of robots
NextCreateRace ==
    \/ \E u \in Actors : RaceBudget /\ CreateGroupInsertGroup(u)
    \/ \E c \in creating : CreateGroupInsertMembership(c)
    \/ \E c \in creating : CreateGroupMembershipFails(c)
    \/ \E u \in Actors, s \in Serials, g \in GroupInputs :
           RaceBudget /\ CreateRobotChecks(u, s, g)
    \/ \E c \in pending : CreateRobotInsert(c)
    \/ \E u \in Actors, g \in GroupIds, s \in Serials :
           RaceBudget /\ CreateGroupRobotChecks(u, g, s)
    \/ \E c \in pending : CreateGroupRobotInsert(c)

SpecCreateRace == Init /\ [][NextCreateRace]_vars

\* The database after user 1 has created group 1 and, for it, robot 1, and has
\* granted user 2 USAGE on the robot (createGroup with both INSERTs,
\* createGroupRobot, grantPermission), no request in flight
InitShared ==
    /\ InitRegistered
    /\ InitFrontend
    /\ groups = {[id |-> 1, owner_id |-> 1]}
    /\ nextGroupId = 2
    /\ group_memberships = {[group_id |-> 1, user_id |-> 1, role |-> "ADMIN"]}
    /\ robots = {[serial_number |-> 1, owner_user_id |-> NULL, owner_group_id |-> 1,
                  assigned_user_id |-> NULL]}
    /\ robot_permissions = {[robot_serial_number |-> 1, user_id |-> 2,
                              permission_type |-> "USAGE", granted_by_id |-> 1]}
    /\ robot_settings = {}
    /\ creating = {}
    /\ resp = Response("grantPermission", 200, 1, 0, 1, 2)
    /\ ops = 0
    /\ pending = {}

\* Concurrent writers of group_memberships, robot_permissions and robot_settings
WriteRaceBudget == ops < MaxWriteRaceOps

NextWriteRace ==
    \/ \E u \in Actors, g \in GroupIds, t \in Actors, r \in GroupRoles :
           WriteRaceBudget /\ UpsertMemberChecks(u, g, t, r)
    \/ \E c \in pending : UpsertMemberUpsert(c)
    \/ \E u \in Actors, s \in Serials, t \in BodyUserIds, p \in PermissionTypes :
           WriteRaceBudget /\ t.value \in Actors /\ GrantPermissionChecks(u, s, t, p)
    \/ \E c \in pending : GrantPermissionUpsert(c)
    \/ \E u \in Actors, s \in Serials, t \in Actors :
           WriteRaceBudget /\ RevokePermissionChecks(u, s, t)
    \/ \E c \in pending : RevokePermissionDelete(c)
    \/ \E u \in Actors, s \in Serials : WriteRaceBudget /\ GetRobotSettingsChecks(u, s)
    \/ \E c \in pending : GetRobotSettingsUpsert(c)
    \/ \E u \in Actors, s \in Serials, b \in BodySettings :
           WriteRaceBudget /\ UpdateRobotSettingsChecks(u, s, b)
    \/ \E c \in pending : UpdateRobotSettingsUpsert(c)

SpecWriteRace == InitShared /\ [][NextWriteRace]_vars

\* The handlers that write rows of robots, with the requests on groups and
\* memberships that their checks and the cascades depend on.
RobotBudget == ops < MaxRobotOps

NextRobots ==
    \/ \E u \in Actors : RobotBudget /\ CreateGroupInsertGroup(u)
    \/ \E c \in creating : CreateGroupInsertMembership(c)
    \/ \E c \in creating : CreateGroupMembershipFails(c)
    \/ \E u \in Actors, s \in Serials, g \in GroupInputs :
           RobotBudget /\ CreateRobot(u, s, g)
    \/ \E u \in Actors, g \in GroupIds, s \in Serials :
           RobotBudget /\ CreateGroupRobot(u, g, s)
    \/ \E u \in Actors, s \in Serials, t \in {0} \cup Actors :
           RobotBudget /\ AssignRobot(u, s, t)
    \/ \E u \in Actors, s \in Serials, h \in BOOLEAN : RobotBudget /\ UpdateRobot(u, s, h)
    \/ \E u \in Actors, s \in Serials : RobotBudget /\ DeleteRobot(u, s)
    \/ \E u \in Actors, g \in GroupIds : RobotBudget /\ DeleteGroup(u, g)

SpecRobots == Init /\ [][NextRobots]_vars

\* The settings handlers on the shared robot, with the grants and revocations
\* that give and take a user's access to it.
SettingsBudget == ops < MaxSettingsOps

NextSettings ==
    \/ \E u \in Actors, s \in Serials : SettingsBudget /\ GetRobotSettings(u, s)
    \/ \E u \in Actors, s \in Serials, b \in BodySettings :
           SettingsBudget /\ UpdateRobotSettings(u, s, b)
    \/ \E u \in Actors, s \in Serials, t \in BodyUserIds, p \in PermissionTypes :
           SettingsBudget /\ t.value \in Actors /\ GrantPermission(u, s, t, p)
    \/ \E u \in Actors, s \in Serials, t \in Actors :
           SettingsBudget /\ RevokePermission(u, s, t)

SpecSettings == InitShared /\ [][NextSettings]_vars

\* The database after user 1 has created the robots of SharedSerials for
\* themselves and has granted user 2 USAGE on each (createRobot without a
\* group, grantPermission), no request in flight
InitSharedRobots ==
    /\ InitRegistered
    /\ InitFrontend
    /\ groups = {}
    /\ nextGroupId = 1
    /\ group_memberships = {}
    /\ robots = {[serial_number |-> s, owner_user_id |-> 1, owner_group_id |-> NULL,
                   assigned_user_id |-> NULL] : s \in SharedSerials}
    /\ robot_permissions = {[robot_serial_number |-> s, user_id |-> 2,
                               permission_type |-> "USAGE", granted_by_id |-> 1]
                                 : s \in SharedSerials}
    /\ robot_settings = {}
    /\ creating = {}
    /\ resp = Response("grantPermission", 200, 1, 0, MaxSharedRobots, 2)
    /\ ops = 0
    /\ pending = {}

\* The settings handlers on several robots, for the users with access to them
\* and for a user without
NextIsolation ==
    \/ \E u \in Users, x \in robots :
           SettingsBudget /\ GetRobotSettings(u, x.serial_number)
    \/ \E u \in Users, x \in robots, b \in BodySettings :
           SettingsBudget /\ UpdateRobotSettings(u, x.serial_number, b)

SpecIsolation == InitSharedRobots /\ [][NextIsolation]_vars

\* The handlers that delete robots and groups, on the shared robot, with the
\* requests that write the rows a deletion takes along and that create the
\* robot again.
CascadeBudget == ops < MaxCascadeOps

NextCascade ==
    \/ \E u \in Actors, s \in Serials : CascadeBudget /\ DeleteRobot(u, s)
    \/ \E u \in Actors, g \in GroupIds : CascadeBudget /\ DeleteGroup(u, g)
    \/ \E u \in Actors, s \in Serials, g \in GroupInputs :
           CascadeBudget /\ CreateRobot(u, s, g)
    \/ \E u \in Actors, s \in Serials, t \in BodyUserIds, p \in PermissionTypes :
           CascadeBudget /\ t.value \in Actors /\ GrantPermission(u, s, t, p)
    \/ \E u \in Actors, s \in Serials, b \in BodySettings :
           CascadeBudget /\ UpdateRobotSettings(u, s, b)
    \/ \E u \in Actors, g \in GroupIds, t \in Actors, r \in GroupRoles :
           CascadeBudget /\ UpsertMember(u, g, t, r)

SpecCascade == InitShared /\ [][NextCascade]_vars

\* The grant and revocation handlers on the stored robots, for every user as
\* target, with the membership and assignment requests that make a grantee the
\* robot's assigned user.
DelegationBudget == ops < MaxDelegationOps

NextDelegation ==
    \/ \E u \in Actors, g \in groups, t \in Actors, r \in GroupRoles :
           DelegationBudget /\ UpsertMember(u, g.id, t, r)
    \/ \E u \in Actors, x \in robots, t \in {0} \cup Actors :
           DelegationBudget /\ AssignRobot(u, x.serial_number, t)
    \/ \E u \in Actors, x \in robots, t \in BodyUserIds, p \in PermissionTypes :
           DelegationBudget /\ GrantPermission(u, x.serial_number, t, p)
    \/ \E u \in Actors, x \in robots, t \in Users :
           DelegationBudget /\ RevokePermission(u, x.serial_number, t)

SpecDelegation == InitShared /\ [][NextDelegation]_vars

\* The users table with the first account alone, whose role and is_staff the
\* operator of the database has set, and the client as after a page load
InitAccounts ==
    /\ \E role \in UserRoles, is_staff \in BOOLEAN :
           users = {[RegisteredUser(1, 1, "null") EXCEPT
                        !.role = role, !.is_staff = is_staff]}
    /\ InitFrontend
    /\ groups = {}
    /\ nextGroupId = 1
    /\ group_memberships = {}
    /\ robots = {}
    /\ robot_permissions = {}
    /\ robot_settings = {}
    /\ creating = {}
    /\ resp = Response("none", 0, 0, 0, 0, 0)
    /\ ops = 0
    /\ pending = {}

\* register and updateProfile
UserBudget == ops < MaxUserOps

NextUsers ==
    \/ \E e \in Emails, n \in BodyNames : UserBudget /\ Register(e, n)
    \/ \E u \in Users, e \in {0} \cup Emails, n \in BodyNames, r \in BodyRoles :
           UserBudget /\ UpdateProfile(u, e, n, r)

SpecUsers == InitAccounts /\ [][NextUsers]_vars

\* Concurrent grantPermission and revokePermission requests on the shared robot
AdminRaceBudget == ops < MaxAdminRaceOps

NextAdminRace ==
    \/ \E u \in Actors, s \in Serials, t \in BodyUserIds, p \in PermissionTypes :
           AdminRaceBudget /\ GrantPermissionChecks(u, s, t, p)
    \/ \E c \in pending : GrantPermissionUpsert(c)
    \/ \E u \in Actors, s \in Serials, t \in Actors :
           AdminRaceBudget /\ RevokePermissionChecks(u, s, t)
    \/ \E c \in pending : RevokePermissionDelete(c)

SpecAdminRace == InitShared /\ [][NextAdminRace]_vars

\* The browser client: logins, logouts, API calls and the answers to them
ClientBudget == ops < MaxClientOps

NextClient ==
    \/ \E a \in AccessTokens, r \in RefreshTokens : ClientBudget /\ handleAuthSuccess(a, r)
    \/ ClientBudget /\ logout
    \/ ClientBudget /\ RequestInterceptor
    \/ \E c \in calls : ResponseOk(c)
    \/ \E c \in calls : ResponseError(c)
    \/ \E c \in calls : Response401(c)
    \/ RefreshRejects
    \/ \E a \in AccessTokens, r \in {0} \cup RefreshTokens : RefreshResolves(a, r)

SpecClient == Init /\ [][NextClient]_vars

\* =================================================================
\* Properties
\* =================================================================
Rank(level) == CASE level = "NONE" -> 0 [] level = "USAGE" -> 1 [] level = "ADMIN" -> 2

\* the levels the access sources of the specification yield for a user on a robot row
SourceLevels(u, r) ==
    {l \in {"ADMIN"} : r.owner_user_id = u}
    \cup {l \in {"ADMIN"} : \E g \in groups : g.id = r.owner_group_id /\ g.owner_id = u}
    \cup {l \in {"ADMIN"} : \E m \in group_memberships :
              m.group_id = r.owner_group_id /\ m.user_id = u /\ m.role = "ADMIN"}
    \cup {l \in {"USAGE"} : r.assigned_user_id = u}
    \cup {p.permission_type : p \in {x \in robot_permissions :
              x.robot_serial_number = r.serial_number /\ x.user_id = u}}

MaxOfSources(u, r) ==
    IF SourceLevels(u, r) = {} THEN "NONE"
    ELSE CHOOSE l \in SourceLevels(u, r) : \A k \in SourceLevels(u, r) : Rank(k) <= Rank(l)

\* C1: for every user and existing robot, getUserRobotPermission returns the
\* maximum of the levels of all applicable sources (direct owner, owner of the
\* owning group, admin membership, assignment, explicit permission row).
C1_ResolveIsMaximumOfSources ==
    \A u \in Users : \A r \in robots :
        getUserRobotPermission(u, r.serial_number) = MaxOfSources(u, r)

\* C2: every robot getAccessibleRobots lists for a user resolves to a level
\* other than none for that user.
C2_ListedImpliesResolved ==
    \A u \in Users : \A s \in getAccessibleRobots(u) :
        getUserRobotPermission(u, s) # "NONE"

\* C3: every robot on which a user resolves to a level other than none is
\* listed by getAccessibleRobots for that user.
C3_ResolvedImpliesListed ==
    \A u \in Users : \A r \in robots :
        getUserRobotPermission(u, r.serial_number) # "NONE"
            => r.serial_number \in getAccessibleRobots(u)

\* C4: hasAdminPermission(u, a) is true exactly when getUserRobotPermission(u, a)
\* is admin.
C4_AdminGateAgreesWithResolver ==
    \A u \in Users : \A r \in robots :
        hasAdminPermission(u, AdminCheckArg(r))
            <=> getUserRobotPermission(u, r.serial_number) = "ADMIN"

\* the group a robot row belongs to is administered by u: u owns the group or
\* holds an ADMIN membership row in it
GroupAuthority(u, groupId) ==
    \E g \in groups :
        /\ g.id = groupId
        /\ \/ g.owner_id = u
           \/ \E m \in group_memberships :
                  m.group_id = groupId /\ m.user_id = u /\ m.role = "ADMIN"

\* C5: a settings read or write that succeeded was made by a user who resolves
\* to a level other than none on that robot (the settings handlers change
\* nothing the resolver reads, so the level right after the response is the
\* level the request was served with).
C5_SettingsOnlyWithAccess ==
    (resp.op \in {"getRobotSettings", "updateRobotSettings"} /\ resp.status = 200)
        => getUserRobotPermission(resp.user, resp.serial) # "NONE"

\* C6: every robot with an assigned user is owned by a group in which the
\* assigned user currently holds a membership row.
C6_AssigneeIsCurrentMember ==
    \A r \in robots :
        r.assigned_user_id # NULL
            => /\ Truthy(r.owner_group_id)
               /\ MembershipRows(r.owner_group_id, r.assigned_user_id) # {}

\* the owner of group g holds exactly one membership row in g, with role ADMIN
OwnerRowIsAdmin(g) ==
    /\ Cardinality(MembershipRows(g.id, g.owner_id)) = 1
    /\ \A m \in MembershipRows(g.id, g.owner_id) : m.role = "ADMIN"

\* C7: once a group's owner holds the single ADMIN membership row of the
\* group, no later request demotes or removes that row.
C7_OwnerRowStaysAdmin ==
    [][\A g \in groups : (OwnerRowIsAdmin(g) /\ g \in groups') => OwnerRowIsAdmin(g)']_vars

\* C8: a group row and its owner's ADMIN membership row exist together or not
\* at all, in every state another request can read.
C8_GroupAndOwnerMembershipTogether ==
    /\ \A g \in groups :
           \E m \in group_memberships :
               m.group_id = g.id /\ m.user_id = g.owner_id /\ m.role = "ADMIN"
    /\ \A m \in group_memberships : GroupRows(m.group_id) # {}

\* C9: an assign request with the clear value (user_id 0), made by a user with
\* admin authority on a group-owned robot, succeeds and leaves the robot
\* without an assigned user.
C9_ClearAssignmentSucceeds ==
    \A r \in robots :
        ( /\ resp.op = "assignRobot"
          /\ resp.target = 0
          /\ resp.serial = r.serial_number
          /\ Truthy(r.owner_group_id)
          /\ GroupAuthority(resp.user, r.owner_group_id) )
            => (resp.status = 200 /\ r.assigned_user_id = NULL)

\* what a group-administration request by u on group id g must come to when
\* the group is absent or u has no authority over it
GroupGate(u, g) ==
    IF GroupRows(g) = {} THEN resp'.status = 404 /\ UNCHANGED tables
    ELSE IF ~GroupAuthority(u, g) THEN resp'.status = 403 /\ UNCHANGED tables
    ELSE TRUE

\* this step serves a request of handler op from its start
Serves(op) == ops' = ops + 1 /\ resp'.op = op

\* C10: upsertMember, removeMember, createGroupRobot and createRobot with an
\* owner_group_id change memberships or robots only when the acting user owns
\* the group or holds an ADMIN membership in it when the request is served;
\* any other user gets 403, an absent group gets 404, and no table changes.
C10_GroupAdminGate ==
    [][( \/ Serves("upsertMember")
         \/ Serves("removeMember")
         \/ Serves("createGroupRobot")
         \/ (Serves("createRobot") /\ Truthy(resp'.group)) )
            => GroupGate(resp'.user, resp'.group)]_vars

\* a plain member's upsertMember was refused
C10_Witness ==
    /\ resp.op = "upsertMember"
    /\ resp.status = 403
    /\ \E m \in MembershipRows(resp.group, resp.user) : m.role = "MEMBER"

\* C11: a removeMember request by a user with authority over the group, whose
\* target is the group's owner, is answered 400 and changes no table; one whose
\* target (another user) holds no membership row in the group is answered 404
\* and changes no table.
C11_RemoveOwnerOrAbsentMember ==
    [][(Serves("removeMember") /\ GroupAuthority(resp'.user, resp'.group))
          => /\ (\E g \in groups : g.id = resp'.group /\ g.owner_id = resp'.target)
                    => (resp'.status = 400 /\ UNCHANGED tables)
             /\ ( /\ \A g \in groups : g.id = resp'.group => g.owner_id # resp'.target
                  /\ MembershipRows(resp'.group, resp'.target) = {} )
                    => (resp'.status = 404 /\ UNCHANGED tables)]_vars

\* the tables other than robot_permissions
otherThanPermissions == <<groups, nextGroupId, group_memberships, robots, robot_settings>>

\* C12: a revokePermission request by a user with admin level on the robot is
\* answered 404 and changes no table when the target holds no robot_permissions
\* row on the robot (as an owner or group owner does); when the row exists and
\* the target is not the direct owner, it is answered 204, exactly that row is
\* deleted and nothing else changes.
C12_RevokeNeedsExplicitRow ==
    [][Serves("revokePermission")
          => \A r \in robots :
                 (r.serial_number = resp'.serial /\ MaxOfSources(resp'.user, r) = "ADMIN")
                     => LET rows == PermissionRows(resp'.serial, resp'.target)
                        IN  /\ rows = {} => (resp'.status = 404 /\ UNCHANGED tables)
                            /\ (rows # {} /\ r.owner_user_id # resp'.target)
                                   => /\ resp'.status = 204
                                      /\ Cardinality(rows) = 1
                                      /\ robot_permissions' = robot_permissions \ rows
                                      /\ UNCHANGED otherThanPermissions]_vars

\* a user holding admin by an explicit row tried to revoke the owner of the
\* owning group, who has no row, and got 404
C12_Witness ==
    /\ resp.op = "revokePermission"
    /\ resp.status = 404
    /\ resp.user # resp.target
    /\ \E r \in robots : \E g \in groups :
           /\ r.serial_number = resp.serial
           /\ g.id = r.owner_group_id
           /\ g.owner_id = resp.target
           /\ PermissionRows(r.serial_number, resp.target) = {}
           /\ \E p \in PermissionRows(r.serial_number, resp.user) : p.permission_type = "ADMIN"

\* the level a user has on a robot row from the sources other than an explicit
\* permission row: ownership, the owning group's ownership or ADMIN role, assignment
RemainingLevel(u, r) ==
    IF \/ r.owner_user_id = u
       \/ \E g \in groups : g.id = r.owner_group_id /\ g.owner_id = u
       \/ \E m \in group_memberships :
              m.group_id = r.owner_group_id /\ m.user_id = u /\ m.role = "ADMIN"
    THEN "ADMIN"
    ELSE IF r.assigned_user_id = u THEN "USAGE" ELSE "NONE"

\* what the resolver, the admin check and the list of accessible robots say of a
\* user without an explicit row on the robot comes from the other sources alone
WithoutRowOnlyOtherSources ==
    \A t \in Users : \A r \in robots :
        PermissionRows(r.serial_number, t) = {}
            => /\ getUserRobotPermission(t, r.serial_number) = RemainingLevel(t, r)
               /\ hasAdminPermission(t, AdminCheckArg(r)) <=> (RemainingLevel(t, r) = "ADMIN")
               /\ r.serial_number \in getAccessibleRobots(t)
                      => \/ r.owner_user_id = t
                         \/ r.assigned_user_id = t
                         \/ MembershipRows(r.owner_group_id, t) # {}

C14_NoGrantToDirectOwner ==
    [][ /\ Serves("grantPermission")
              => \A r \in robots :
                     (r.serial_number = resp'.serial /\ r.owner_user_id = resp'.target)
                         => /\ UNCHANGED tables
                            /\ resp'.status =
                                   IF MaxOfSources(resp'.user, r) = "ADMIN" THEN 400 ELSE 403
        /\ \A r \in robots' : PermissionRows(r.serial_number, r.owner_user_id)' = {} ]_vars

\* the tables other than robots
otherThanRobots ==
    <<groups, nextGroupId, group_memberships, robot_permissions, robot_settings>>

\* C15: an assignRobot request on an existing robot is answered 400 when the
\* robot is user-owned, 403 when the acting user has no admin level on a
\* group-owned robot, 400 when the target (not the clear value 0) holds no
\* membership row in the owning group; every answer other than 200 leaves all
\* tables unchanged; otherwise the answer is 200, assigned_user_id is the target
\* and nothing else changes.
C15_AssignRobotContract ==
    [][Serves("assignRobot")
          => \A r \in robots :
                 r.serial_number = resp'.serial
                     => LET userOwned == ~Truthy(r.owner_group_id)
                            admin == MaxOfSources(resp'.user, r) = "ADMIN"
                            member == MembershipRows(r.owner_group_id, resp'.target) # {}
                        IN  /\ resp'.status # 200 => UNCHANGED tables
                            /\ userOwned => resp'.status = 400
                            /\ (~userOwned /\ ~admin) => resp'.status = 403
                            /\ (~userOwned /\ admin /\ resp'.target # 0 /\ ~member)
                                   => resp'.status = 400
                            /\ (~userOwned /\ admin /\ resp'.target # 0 /\ member)
                                   => /\ resp'.status = 200
                                      /\ robots' = (robots \ {r}) \cup
                                             {[r EXCEPT !.assigned_user_id = resp'.target]}
                                      /\ UNCHANGED otherThanRobots]_vars

\* the row a creation request c asks for
RequestedRobot(c) ==
    [serial_number |-> c.serial,
     owner_user_id |-> IF c.op = "createRobot" /\ ~Truthy(c.group) THEN c.user ELSE NULL,
     owner_group_id |-> IF c.op = "createRobot" /\ ~Truthy(c.group) THEN NULL ELSE c.group,
     assigned_user_id |-> NULL]

\* C16: under any interleaving of the statements of createRobot and
\* createGroupRobot requests, robots holds at most one row per serial number;
\* the INSERT of a creation whose serial number is already stored, under any
\* owner, is answered 400 and changes no table, so the stored robot keeps its
\* owner; the INSERT of one whose serial number is free is answered 201 and
\* adds exactly the requested row. Of the creations of one serial number in
\* flight together, the first INSERT is thus the only one answered 201.
C16_SerialNumbersUnique ==
    /\ [](\A x \in robots, y \in robots : x.serial_number = y.serial_number => x = y)
    /\ [][
          \A c \in pending :
              (pending' = pending \ {c} /\ c.op \in {"createRobot", "createGroupRobot"})
                  => IF RobotRows(c.serial) # {}
                     THEN resp'.status = 400 /\ UNCHANGED tables
                     ELSE /\ resp'.status = 201
                          /\ robots' = robots \cup {RequestedRobot(c)}
                          /\ UNCHANGED otherThanRobots
         ]_vars

\* a creation was refused with 400 while the serial number belongs to another
\* user's robot, and a third creation of the same serial number is in flight
C16_Witness ==
    /\ resp.op = "createRobot"
    /\ resp.status = 400
    /\ \E r \in robots :
           /\ r.serial_number = resp.serial
           /\ r.owner_user_id # NULL
           /\ r.owner_user_id # resp.user
    /\ \E c \in pending : c.serial = resp.serial

\* C17: every row of robots has exactly one of owner_user_id and owner_group_id
\* set, never both and never neither, and a request that leaves a robot in the
\* table leaves both of its owner columns as they were.
C17_ExactlyOneOwnerForever ==
    /\ [](\A r \in robots : (r.owner_user_id = NULL) # (r.owner_group_id = NULL))
    /\ [][
          \A r \in robots : \A x \in robots' :
              x.serial_number = r.serial_number
                  => /\ x.owner_user_id = r.owner_user_id
                     /\ x.owner_group_id = r.owner_group_id
         ]_vars

\* assignRobot has rewritten the row of a group-owned robot
C17_Witness ==
    /\ resp.op = "assignRobot"
    /\ resp.status = 200
    /\ \E r \in robots :
           /\ r.serial_number = resp.serial
           /\ r.assigned_user_id = resp.target
           /\ r.owner_group_id # NULL

\* C18: under any interleaving of the statements of grantPermission,
\* revokePermission, upsertMember, getRobotSettings and updateRobotSettings
\* requests, robot_permissions and robot_settings hold at most one row per
\* (robot, user) and group_memberships at most one per (group, user); the
\* upsert of a grant answered 200 leaves for its key exactly the row with the
\* granted level and the granting user, the DELETE of a revocation leaves no
\* row for its key, and neither touches the rows of another key.
C18_OneRowPerKeyUnderRaces ==
    /\ [](/\ \A x \in robot_permissions, y \in robot_permissions :
                 (x.robot_serial_number = y.robot_serial_number /\ x.user_id = y.user_id)
                     => x = y
          /\ \A x \in group_memberships, y \in group_memberships :
                 (x.group_id = y.group_id /\ x.user_id = y.user_id) => x = y
          /\ \A x \in robot_settings, y \in robot_settings :
                 (x.robot_serial_number = y.robot_serial_number /\ x.user_id = y.user_id)
                     => x = y)
    /\ [][
          \A c \in pending :
              (pending' = pending \ {c} /\ c.op \in {"grantPermission", "revokePermission"})
                  => LET key(x) == x.robot_serial_number = c.serial /\ x.user_id = c.target
                     IN  /\ {x \in robot_permissions' : ~key(x)}
                               = {x \in robot_permissions : ~key(x)}
                         /\ (c.op = "grantPermission" /\ resp'.status = 200)
                               => {x \in robot_permissions' : key(x)}
                                    = {[robot_serial_number |-> c.serial,
                                        user_id |-> c.target,
                                        permission_type |-> c.arg,
                                        granted_by_id |-> c.user]}
                         /\ c.op = "revokePermission"
                               => /\ resp'.status = 204
                                  /\ {x \in robot_permissions' : key(x)} = {}
         ]_vars

\* a grant has replaced level and granter of the stored row while a revocation
\* of the same key is in flight
C18_Witness ==
    /\ resp.op = "grantPermission"
    /\ resp.status = 200
    /\ PermissionRows(resp.serial, resp.target)
           = {[robot_serial_number |-> resp.serial, user_id |-> resp.target,
               permission_type |-> "ADMIN", granted_by_id |-> resp.user]}
    /\ \E c \in pending :
           c.op = "revokePermission" /\ c.serial = resp.serial /\ c.target = resp.target

\* C19: an upsertMember request answered 200 leaves exactly one membership row
\* for (group, target), with the requested role, and the rows of other keys as
\* they were; an upsertMember request served when that row is already stored
\* with that role leaves group_memberships unchanged.
C19_UpsertMemberIdempotent ==
    [][Serves("upsertMember")
          => \A u \in Users, g \in GroupIds, t \in Users, r \in GroupRoles :
                 ( /\ u = resp'.user
                   /\ g = resp'.group
                   /\ t = resp'.target
                   /\ UpsertMember(u, g, t, r) )
                     => LET row == [group_id |-> g, user_id |-> t, role |-> r]
                        IN  /\ resp'.status = 200
                                  => /\ MembershipRows(g, t)' = {row}
                                     /\ group_memberships' \ {row}
                                            = group_memberships \ MembershipRows(g, t)
                            /\ MembershipRows(g, t) = {row}
                                  => group_memberships' = group_memberships
      ]_vars

\* an admin's upsertMember for another user was answered 200 and that user
\* holds one row in the group
C19_Witness ==
    /\ resp.op = "upsertMember"
    /\ resp.status = 200
    /\ resp.target # resp.user
    /\ Cardinality(MembershipRows(resp.group, resp.target)) = 1
    /\ ops = MaxAdminOps

\* the settings stored for (robot, user): the empty object when there is no row
StoredSettings(serial, user) ==
    IF SettingRows(serial, user) = {} THEN {}
    ELSE Row0(SettingRows(serial, user)).settings

\* C20: an updateRobotSettings request with an object, answered 200, leaves for
\* (robot, user) exactly one row whose settings are that object, whatever was
\* stored before; a getRobotSettings request answered 200 returns the settings
\* stored for (robot, user), the empty object when there is no row, and changes
\* no stored settings; and the settings stored for (robot, user) change only by
\* an updateRobotSettings request of that user on that robot.
C20_SettingsRoundTrip ==
    [][ /\ Serves("updateRobotSettings")
             => \A u \in Users, s \in Serials, b \in Blobs :
                    ( /\ u = resp'.user
                      /\ s = resp'.serial
                      /\ resp'.status = 200
                      /\ UpdateRobotSettings(u, s, [type |-> "object", value |-> b]) )
                        => /\ SettingRows(s, u)' =
                                 {[robot_serial_number |-> s, user_id |-> u, settings |-> b]}
                           /\ resp'.body = b
        /\ (Serves("getRobotSettings") /\ resp'.status = 200)
             => \A u \in Users, s \in Serials :
                    (u = resp'.user /\ s = resp'.serial)
                        => resp'.body = StoredSettings(s, u)
        /\ \A u \in Users, s \in Serials :
               StoredSettings(s, u)' # StoredSettings(s, u)
                   => /\ Serves("updateRobotSettings")
                      /\ resp'.user = u
                      /\ resp'.serial = s
                      /\ resp'.status = 200
      ]_vars

\* getRobotSettings has returned the object saved before
C20_Witness ==
    /\ resp.op = "getRobotSettings"
    /\ resp.status = 200
    /\ resp.body = {"theme"}
    /\ StoredSettings(resp.serial, resp.user) = {"theme"}

\* C21: in every state, for every user-owned robot, getUserRobotPermission of
\* its owner is ADMIN, whatever robot_permissions row the owner holds on it.
C21_DirectOwnerResolvesAdmin ==
    \A r \in robots :
        r.owner_user_id # NULL
            => getUserRobotPermission(r.owner_user_id, r.serial_number) = "ADMIN"

\* a robot's direct owner holds a USAGE row on it
C21_Witness ==
    \E r \in robots :
        /\ r.owner_user_id # NULL
        /\ \E p \in PermissionRows(r.serial_number, r.owner_user_id) :
               p.permission_type = "USAGE"

\* C22: getUserRobotPermission for a serial number that no row of robots
\* carries does not return a level or null.
C22_MissingRobotIsNotFound ==
    \A u \in Users, s \in Serials :
        RobotRows(s) = {} => getUserRobotPermission(u, s) \notin {"NONE", "USAGE", "ADMIN"}

\* every permission and settings row names a stored robot, every membership
\* row and every group-owned robot a stored group
NoDanglingRows ==
    /\ \A p \in robot_permissions : RobotRows(p.robot_serial_number) # {}
    /\ \A x \in robot_settings : RobotRows(x.robot_serial_number) # {}
    /\ \A m \in group_memberships : GroupRows(m.group_id) # {}
    /\ \A r \in robots : r.owner_group_id # NULL => GroupRows(r.owner_group_id) # {}

\* C23: in every state no permission, settings or membership row dangles; a
\* deleteRobot request answered 204 leaves no robots, robot_permissions or
\* robot_settings row with its serial number, and a deleteGroup request
\* answered 204 leaves no groups or group_memberships row with its group id.
C23_DeletionCascades ==
    /\ []NoDanglingRows
    /\ [][
          /\ (Serves("deleteRobot") /\ resp'.status = 204)
                => /\ \A r \in robots' : r.serial_number # resp'.serial
                   /\ \A p \in robot_permissions' : p.robot_serial_number # resp'.serial
                   /\ \A x \in robot_settings' : x.robot_serial_number # resp'.serial
          /\ (Serves("deleteGroup") /\ resp'.status = 204)
                => /\ \A g \in groups' : g.id # resp'.group
                   /\ \A m \in group_memberships' : m.group_id # resp'.group
         ]_vars

\* the shared robot, which had a grant, was deleted, and the robot created
\* again with its serial number has no permission row
C23_Witness ==
    /\ resp.op = "createRobot"
    /\ resp.status = 201
    /\ RobotRows(resp.serial) # {}
    /\ \A p \in robot_permissions : p.robot_serial_number # resp.serial

\* C24: a deleteRobot request on a stored robot is answered 204, and the robot
\* removed, when the acting user is the robot's owner or has ADMIN from any
\* source, an explicit ADMIN row included; any other user is answered 403 and
\* no table changes.
C24_DeleteRobotForAdmins ==
    [][Serves("deleteRobot")
          => \A r \in robots :
                 r.serial_number = resp'.serial
                     => IF r.owner_user_id = resp'.user \/ MaxOfSources(resp'.user, r) = "ADMIN"
                        THEN /\ resp'.status = 204
                             /\ \A x \in robots' : x.serial_number # resp'.serial
                        ELSE resp'.status = 403 /\ UNCHANGED tables
      ]_vars

\* C25: a deleteGroup request on a stored group is answered 204, and the group
\* removed, when the acting user holds an ADMIN membership in it, owner or
\* not; a user without one is answered 403 and no table changes.
C25_DeleteGroupForAdminMembers ==
    [][Serves("deleteGroup")
          => \A g \in groups :
                 g.id = resp'.group
                     => IF \E m \in MembershipRows(g.id, resp'.user) : m.role = "ADMIN"
                        THEN /\ resp'.status = 204
                             /\ \A x \in groups' : x.id # resp'.group
                        ELSE resp'.status = 403 /\ UNCHANGED tables
      ]_vars

\* C26: a grantPermission request for USAGE by a user who holds an explicit
\* ADMIN row on the robot, whether or not that user is the robot's assigned
\* user, for another user who is not the robot's direct owner, is answered 200
\* and leaves the target one row with USAGE granted by the acting user; then
\* getUserRobotPermission of the target is at least USAGE, exactly USAGE when
\* the target has no other source, and getAccessibleRobots of the target
\* lists the robot.
C26_DelegatedAdminCanGrant ==
    [][Serves("grantPermission")
          => \A r \in robots :
                 ( /\ r.serial_number = resp'.serial
                   /\ resp'.target # resp'.user
                   /\ r.owner_user_id # resp'.target
                   /\ \E p \in PermissionRows(r.serial_number, resp'.user) :
                          p.permission_type = "ADMIN"
                   /\ \E type \in {"number", "string"} :
                          GrantPermission(resp'.user, r.serial_number,
                                          [type |-> type, value |-> resp'.target], "USAGE") )
                     => /\ resp'.status = 200
                        /\ \A c \in Users :
                               c = resp'.target
                                   => /\ PermissionRows(r.serial_number, c)' =
                                             {[robot_serial_number |-> r.serial_number,
                                               user_id |-> c,
                                               permission_type |-> "USAGE",
                                               granted_by_id |-> resp'.user]}
                                      /\ Rank(getUserRobotPermission(c, r.serial_number)')
                                             >= Rank("USAGE")
                                      /\ RemainingLevel(c, r) = "NONE"
                                             => getUserRobotPermission(c, r.serial_number)'
                                                    = "USAGE"
                                      /\ r.serial_number \in getAccessibleRobots(c)'
      ]_vars

\* a user who is the robot's assigned user and holds an explicit ADMIN row on
\* it has granted USAGE to a third user, who now resolves to USAGE
C26_Witness ==
    /\ resp.op = "grantPermission"
    /\ resp.status = 200
    /\ \E r \in RobotRows(resp.serial) :
           /\ r.assigned_user_id = resp.user
           /\ r.owner_user_id # resp.user
           /\ \A g \in groups : g.id = r.owner_group_id => g.owner_id # resp.user
           /\ RemainingLevel(resp.target, r) = "NONE"
    /\ \E p \in PermissionRows(resp.serial, resp.user) : p.permission_type = "ADMIN"
    /\ PermissionRows(resp.serial, resp.target) =
           {[robot_serial_number |-> resp.serial, user_id |-> resp.target,
             permission_type |-> "USAGE", granted_by_id |-> resp.user]}
    /\ getUserRobotPermission(resp.target, resp.serial) = "USAGE"
    /\ resp.serial \in getAccessibleRobots(resp.target)

\* C27: a row register adds to users has role USER; the row of a user whose
\* role is USER and who is not staff keeps that role and is_staff after every
\* request; and an updateProfile request of such a user, with a role in its
\* body other than USER, is answered 403 and changes no row of users.
C27_UsersCannotPromoteThemselves ==
    [][/\ \A x \in users' : (\A y \in users : y.id # x.id) => x.role = "USER"
       /\ \A y \in users :
              (y.role = "USER" /\ ~y.is_staff)
                  => \A x \in users' : x.id = y.id => (x.role = "USER" /\ ~x.is_staff)
       /\ Serves("updateProfile")
              => \A y \in users :
                     ( /\ y.id = resp'.user
                       /\ y.role = "USER"
                       /\ ~y.is_staff
                       /\ \E e \in {0} \cup Emails, n \in BodyNames :
                              UpdateProfile(resp'.user, e, n, "ADMIN") )
                         => (resp'.status = 403 /\ users' = users)
      ]_vars

\* a registered user was refused a role change while an ADMIN account exists
C27_Witness ==
    /\ resp.op = "updateProfile"
    /\ resp.status = 403
    /\ \E y \in users : y.id = resp.user /\ y.role = "USER" /\ ~y.is_staff /\ y.id # 1
    /\ \E y \in users : y.role = "ADMIN"

\* C28: when a call that was not sent again gets a 401 and no refresh token is
\* stored, tokens and localStorage are cleared and the call is rejected, else
\* the call awaits the refresh; when the refresh fails, tokens and
\* localStorage are cleared and every call awaiting it is rejected; when it
\* succeeds, the new access token is in tokens and in localStorage and every
\* call awaiting it is sent again with that token.
C28_RefreshOnUnauthorized ==
    [][/\ \A c \in calls :
              (~c.retry /\ Response401(c))
                  => IF storage.refresh = 0
                     THEN /\ tokens' = NoTokens
                          /\ storage' = NoTokens
                          /\ [c EXCEPT !.pc = "rejected"] \in calls'
                     ELSE /\ [c EXCEPT !.pc = "awaiting"] \in calls'
                          /\ refreshPromise' # NoRefresh
       /\ RefreshRejects
              => /\ tokens' = NoTokens
                 /\ storage' = NoTokens
                 /\ \A c \in calls :
                        c.pc = "awaiting" => [c EXCEPT !.pc = "rejected"] \in calls'
       /\ \A a \in AccessTokens, r \in {0} \cup RefreshTokens :
              RefreshResolves(a, r)
                  => /\ tokens'.access = a
                     /\ storage'.access = a
                     /\ \A c \in calls :
                            c.pc = "awaiting"
                                => [c EXCEPT !.pc = "resent", !.auth = a, !.retry = TRUE]
                                       \in calls'
      ]_vars

\* after a login, a call was rejected and the tokens cleared because the
\* refresh failed
C28_Witness ==
    /\ session = "in"
    /\ tokens = NoTokens
    /\ storage = NoTokens
    /\ refreshPromise = NoRefresh
    /\ \E c \in calls : c.pc = "rejected" /\ ~c.retry /\ c.auth # 0

\* C29: the upsert of a grantPermission request is answered 200 only while
\* the acting user has admin on the robot: not after a revocation that took
\* the user's only source of admin has deleted its row.
C29_AdminHeldAtCommit ==
    [][\A c \in pending :
           ( /\ pending' = pending \ {c}
             /\ c.op = "grantPermission"
             /\ resp'.status = 200 )
               => \E r \in RobotRows(c.serial) : hasAdminPermission(c.user, AdminCheckArg(r))
      ]_vars

\* C30: from a logout until the next login or register that succeeds, neither
\* tokens nor localStorage holds a token.
C30_LogoutIsFinal ==
    session = "out" => (tokens = NoTokens /\ storage = NoTokens)

\* C31: at most one refresh request is in flight, and one is in flight exactly
\* while refreshPromise is set; a call that gets a 401 and takes the refresh
\* path while a refresh is in flight awaits that refresh and posts no other;
\* when the refresh settles every call awaiting it has the same outcome (all
\* sent again with the new access token, or all rejected) and refreshPromise
\* is null again; a 401 taking the refresh path while refreshPromise is null
\* posts a new refresh request.
C31_RefreshIsSingleFlight ==
    /\ [](refreshRequests <= 1 /\ (refreshRequests = 1 <=> refreshPromise # NoRefresh))
    /\ [][ /\ \A c \in calls :
                  (Response401(c) /\ ~c.retry /\ storage.refresh # 0)
                      => /\ [c EXCEPT !.pc = "awaiting"] \in calls'
                         /\ IF refreshPromise # NoRefresh
                            THEN UNCHANGED <<refreshPromise, refreshRequests>>
                            ELSE /\ refreshRequests' = 1
                                 /\ refreshPromise' = [refresh |-> storage.refresh]
           /\ refreshRequests' < refreshRequests
                  => /\ refreshPromise' = NoRefresh
                     /\ refreshRequests' = 0
                     /\ \A c \in calls' : c.pc # "awaiting"
                     /\ \/ \A c \in calls :
                               (c.pc = "awaiting")
                                   => [c EXCEPT !.pc = "rejected"] \in calls'
                        \/ \E a \in AccessTokens :
                               \A c \in calls :
                                   (c.pc = "awaiting")
                                       => [c EXCEPT !.pc = "resent", !.auth = a,
                                                    !.retry = TRUE] \in calls'
          ]_vars

\* two calls await the one refresh request in flight
C31_Witness ==
    /\ refreshRequests = 1
    /\ \E c, d \in calls : c.id # d.id /\ c.pc = "awaiting" /\ d.pc = "awaiting"

\* how many more responses a call can get: two before the refresh, one once
\* it was sent again, none after it has resolved or was rejected
ResponsesLeft(c) ==
    CASE c.pc = "sent"     -> IF c.retry THEN 1 ELSE 3
      [] c.pc = "awaiting" -> 2
      [] c.pc = "resent"   -> 1
      [] OTHER             -> 0

\* C32: a call is sent again at most once: a call that awaits the refresh was
\* not sent again yet, and every step of a call takes it nearer its end; when
\* a call that was sent again gets a 401, it is rejected, the tokens and
\* localStorage are cleared and no refresh request is posted.
C32_RetriesAreBounded ==
    /\ [](\A c \in calls : /\ (c.pc = "awaiting") => ~c.retry
                           /\ (c.pc = "resent") => c.retry)
    /\ [][ /\ \A c \in calls : \A d \in calls' :
                  (d.id = c.id /\ d # c) => ResponsesLeft(d) < ResponsesLeft(c)
           /\ \A c \in calls :
                  (c.retry /\ Response401(c))
                      => /\ [c EXCEPT !.pc = "rejected"] \in calls'
                         /\ tokens' = NoTokens
                         /\ storage' = NoTokens
                         /\ UNCHANGED <<refreshPromise, refreshRequests>>
          ]_vars

\* a call that was sent again after a refresh got a 401 and was rejected
C32_Witness ==
    /\ \E c \in calls : c.retry /\ c.pc = "rejected"
    /\ tokens = NoTokens
    /\ storage = NoTokens
    /\ refreshRequests = 0

\* the rank of a membership role
RoleRank(role) == IF role = "ADMIN" THEN 2 ELSE 1

\* C33: a request of a user who resolves below ADMIN on a stored robot leaves
\* that user's level on the robot no higher than it was; and a request of a
\* user who neither owns a stored group nor holds an ADMIN membership in it
\* gives that user no membership row in the group and no higher role.
C33_NoSelfEscalation ==
    [][\A u \in Users :
           (ops' = ops + 1 /\ resp'.user = u)
               => /\ \A s \in Serials :
                         ( /\ RobotRows(s) # {}
                           /\ RobotRows(s)' # {}
                           /\ getUserRobotPermission(u, s) # "ADMIN" )
                             => Rank(getUserRobotPermission(u, s)')
                                    <= Rank(getUserRobotPermission(u, s))
                  /\ \A g \in GroupIds :
                         (GroupRows(g) # {} /\ ~GroupAuthority(u, g))
                             => \A m \in MembershipRows(g, u)' :
                                    \E k \in MembershipRows(g, u) :
                                        RoleRank(m.role) <= RoleRank(k.role)
      ]_vars

\* C34: the owner of every stored group passes the authority checks of
\* upsertMember, removeMember and createGroupRobot, resolves to ADMIN on every
\* robot the group owns and passes hasAdminPermission on it, whatever role the
\* owner's own membership row holds and whether or not there is such a row;
\* and no upsertMember or removeMember request of the owner on the group is
\* answered 403.
C34_OwnerKeepsAuthority ==
    /\ [](\A g \in groups :
              /\ UpsertMemberIsAdmin(g.owner_id, g)
              /\ RemoveMemberIsAdmin(g.owner_id, g)
              /\ CreateGroupRobotIsAdmin(g.owner_id, g)
              /\ \A r \in robots :
                     r.owner_group_id = g.id
                         => /\ getUserRobotPermission(g.owner_id, r.serial_number) = "ADMIN"
                            /\ hasAdminPermission(g.owner_id, AdminCheckArg(r)))
    /\ [][\A g \in groups :
               ( /\ Serves("upsertMember") \/ Serves("removeMember")
                 /\ resp'.user = g.owner_id
                 /\ resp'.group = g.id )
                   => resp'.status # 403
          ]_vars

\* an upsertMember request has set the owner's own membership row to MEMBER
\* in a group that owns a robot
C34_Witness ==
    /\ resp.op = "upsertMember"
    /\ resp.status = 200
    /\ \E g \in groups :
           /\ resp.group = g.id
           /\ resp.target = g.owner_id
           /\ \E m \in MembershipRows(g.id, g.owner_id) : m.role = "MEMBER"
           /\ \E r \in robots : r.owner_group_id = g.id

\* C35: under any interleaving of the statements of getRobotSettings and
\* updateRobotSettings requests, the upsert of a getRobotSettings request
\* changes and removes no stored row, adds at most the row of its own key with
\* the empty object, and only when the key has no row, and answers with the
\* settings that were stored; the settings stored for a (robot, user) change
\* only by the upsert of an updateRobotSettings request of that user on that
\* robot, to the settings of the request.
C35_ReadKeepsStoredSettings ==
    [][/\ \A c \in pending :
              (pending' = pending \ {c} /\ c.op = "getRobotSettings")
                  => /\ robot_settings \subseteq robot_settings'
                     /\ \A x \in robot_settings' \ robot_settings :
                            /\ x = [robot_serial_number |-> c.serial, user_id |-> c.user,
                                    settings |-> {}]
                            /\ SettingRows(c.serial, c.user) = {}
                     /\ resp'.status = 200
                     /\ resp'.body = StoredSettings(c.serial, c.user)
       /\ \A u \in Users, s \in Serials :
              StoredSettings(s, u)' # StoredSettings(s, u)
                  => \E c \in pending :
                         /\ pending' = pending \ {c}
                         /\ c.op = "updateRobotSettings"
                         /\ c.user = u
                         /\ c.serial = s
                         /\ StoredSettings(s, u)' = OrEmptyObject(c.settings)
      ]_vars

\* a save has stored its settings for a (robot, user) while a getRobotSettings
\* request of that user on that robot has passed its access check and its
\* upsert is still to run
C35_Witness ==
    /\ resp.op = "updateRobotSettings"
    /\ resp.status = 200
    /\ StoredSettings(resp.serial, resp.user) = {"theme"}
    /\ \E c \in pending :
           c.op = "getRobotSettings" /\ c.serial = resp.serial /\ c.user = resp.user

\* C36: a getRobotSettings or updateRobotSettings request of a user on a robot
\* leaves at most one robot_settings row for (robot, user), leaves the rows of
\* every other user on that robot and of that user on every other robot as they
\* were, and changes no robot, group, membership, permission or user.
C36_SettingsIsolated ==
    [][(Serves("getRobotSettings") \/ Serves("updateRobotSettings"))
          => LET key(x) == x.robot_serial_number = resp'.serial /\ x.user_id = resp'.user
             IN  /\ {x \in robot_settings' : ~key(x)} = {x \in robot_settings : ~key(x)}
                 /\ Cardinality({x \in robot_settings' : key(x)}) <= 1
                 /\ UNCHANGED <<groups, nextGroupId, group_memberships, robots,
                                robot_permissions, users>>
      ]_vars

\* a user has saved the empty object for a robot while another user's row on
\* that robot and the user's own row on another robot hold other settings
C36_Witness ==
    /\ resp.op = "updateRobotSettings"
    /\ resp.status = 200
    /\ StoredSettings(resp.serial, resp.user) = {}
    /\ \E x \in robot_settings :
           /\ x.robot_serial_number = resp.serial
           /\ x.user_id # resp.user
           /\ x.settings = {"theme"}
    /\ \E x \in robot_settings :
           /\ x.robot_serial_number # resp.serial
           /\ x.user_id = resp.user
           /\ x.settings = {"theme"}

====
